---- MODULE Spec2Model ----
(***************************************************************************)
(* Model of the WhatsApp notification bot (src/src/index.js and its        *)
(* libraries): the connection manager around the Baileys socket, the order *)
(* poller on the Supabase 'orders' table and the dispatch of a new order.  *)
(*                                                                         *)
(* JavaScript runs one callback at a time; a callback is suspended only at *)
(* an await.  Every action below is one such run: from the firing of a     *)
(* timer, an event of the transport or the settling of an awaited          *)
(* operation, up to the next await.                                        *)
(***************************************************************************)
EXTENDS Integers, Sequences, FiniteSets, TLC

(***************************************************************************)
(* Bounds of the model.                                                    *)
(***************************************************************************)
MaxPedidos == 2
MaxTicks == 2
MaxSocksPoller == 1
MaxSocksSerial == 2
MaxSocksConn == 6
MaxQr == 2
MaxReconectar == 1
MaxSelecoes == 3
MaxHoras == 28
MaxHorasFalha == 7
MaxExcedente == 6
MaxSelecoesHist == 2
MaxMinutos == 2
MaxPixRespostas == 1
MaxRespostas == 1

(***************************************************************************)
(* Constants of the program.                                               *)
(***************************************************************************)
MAX_TENTATIVAS_RECONEXAO == 5
DELAY_BASE_RECONEXAO_MS == 3000
MAX_PEDIDOS_CACHE == 100
LIMITE_LOTE == 10
DELAY_LOGOUT_MS == 2000
DELAY_FALLBACK_MS == 5000
DELAY_RECONECTAR_MS == 1000

\* NUMERO_LOJA is configured (a non-empty store number).
NUMERO_LOJA == TRUE

\* null of a timestamp (ultimoPedidoProcessado before the first seed); the
\* timestamps of the store start at 1.
Nulo == 0

\* DisconnectReason codes of a 'close' event; "indefinido" is a close whose
\* lastDisconnect carries no status code.
Transitorios ==
    {"connectionClosed", "connectionLost", "connectionReplaced", "timedOut",
     "restartRequired"}

StatusCodes == Transitorios \cup {"loggedOut", "badSession", "indefinido"}

\* The courier directory (funcionarios with cargo 'entregador', ativo, with a
\* phone), as buscarEntregadoresAtivos returns it.
Entregadores == <<"e1">>

\* The kinds of order the store creates in this model.
TiposPedido ==
    { [telefone |-> TRUE, entrega |-> TRUE, malformado |-> FALSE],
      [telefone |-> TRUE, entrega |-> FALSE, malformado |-> TRUE] }

VARIABLES
    \* ---- connection manager (index.js 44-57) ----
    sock,                   \* handle of the current socket, 0 for null
    socks,                  \* every socket made: [estado, ouvintes]
    statusConexao,
    qrCodeAtual,            \* TRUE when a QR payload is held
    contadorQrCodes,
    estaAutenticado,
    tentativasReconexao,
    USAR_SUPABASE_AUTH,     \* the credential backend, fixed at startup
    credenciais,            \* a paired session is persisted in the backend
    timers,                 \* pending setTimeout(iniciarConexaoWhatsApp, d)
    inicios,                \* iniciarConexaoWhatsApp calls suspended at an await
    limpezas,               \* close handlers suspended in limparSessao()
    nReconectar,            \* POST /reconectar requests served
    \* ---- order store and poller (index.js 248-260) ----
    relogio,
    orders,
    ultimoPedidoProcessado,
    pedidosProcessados,
    intervaloPolling,       \* TRUE when the variable holds a timer
    pollAtivos,             \* polling intervals installed and not cleared
    intervaloVerificacaoLoja,
    lojaFechadaPeloAdmin,
    cacheEntregadores,
    configs,                \* configurarPollingPedidos calls in flight
    ticks,                  \* verificarNovosPedidos calls in flight
    despachos,              \* processarNovoPedido calls in flight
    \* ---- history ----
    invocacoes,             \* per order: calls of processarNovoPedido (2: more than one)
    retornos,               \* per order: fetches that returned it (2: more than one)
    semente,                \* the first value the cursor was seeded with
    enviosRodada,           \* per tick in flight: orders in the order of their sends
    insercoes,              \* the ids pedidosProcessados.add put in, in order
    transportes,            \* per order: sock.sendMessage was called for it
    ultimoTick,             \* "fechado": the last run found the store closed;
                            \* "erro": the last fetch failed; else "nenhum"
    \* ---- one dispatch followed send by send (index.js 135-246) ----
    chamada,                \* the call in flight: function, payload, position
    tentativasEnvio,        \* the calls of enviarMensagem, in order
    desfecho,               \* how the call ended: "normal" or "rejeitado"
    inativos,               \* the couriers whose row has ativo = false now
    cacheCarregado,         \* ultimaAtualizacaoCache is set: a directory read settled
    \* ---- PIX key selector (lib/pix.js) ----
    usoPorIndice,
    ultimoEnvioPorNumero,   \* the Map, its entries in insertion order
    agora,                  \* Date.now()
    entregas,               \* history: per requester, the last key returned and when
    ultimaSelecao,          \* history: the last call of selecionarChavePixInteligente
    semConflito,            \* history: no call so far found its requester inside the window
    \* ---- automatic replies (lib/respostasAutomaticas.js 32-34, 700-741) ----
    ultimasRespostas,       \* the Map: per sender the time of the last reply, 0 for none
    respostas,              \* processarMensagemRecebida calls suspended in a generator
    ultimoRegistro,         \* history: per sender the time of the last registrarResposta
    ultimaMensagem,         \* history: the last call of processarMensagemRecebida
    \* ---- store availability (index.js 311-334, lib/respostasAutomaticas.js) ----
    manual_status,          \* store_settings.manual_status as the admin left it
    noHorario,              \* what estaNoHorario() returns now
    configuracoesLoja,      \* the cached settings, "null" before the first load
    ultimaAtualizacaoConfig,
    lojaAberta,             \* what verificarLojaAbertaSupabase returned last
    supabaseFora            \* the reads of Supabase fail now

connVars ==
    <<sock, socks, statusConexao, qrCodeAtual, contadorQrCodes, estaAutenticado,
      tentativasReconexao, USAR_SUPABASE_AUTH, credenciais, timers, inicios,
      limpezas, nReconectar>>

lojaVars == <<relogio, orders>>

pollVars ==
    <<ultimoPedidoProcessado, pedidosProcessados, intervaloPolling, pollAtivos,
      intervaloVerificacaoLoja, lojaFechadaPeloAdmin, cacheEntregadores,
      configs, ticks, despachos>>

histVars ==
    <<invocacoes, retornos, semente, enviosRodada, insercoes, transportes,
      ultimoTick>>

despVars == <<chamada, tentativasEnvio, desfecho, inativos, cacheCarregado>>

respVars == <<ultimasRespostas, respostas, ultimoRegistro, ultimaMensagem>>

pixVars ==
    <<usoPorIndice, ultimoEnvioPorNumero, agora, entregas, ultimaSelecao,
      semConflito, respVars>>

cfgVars ==
    <<manual_status, noHorario, configuracoesLoja, ultimaAtualizacaoConfig,
      lojaAberta, supabaseFora>>

outrosVars == <<despVars, pixVars, cfgVars>>

vars == <<connVars, lojaVars, pollVars, histVars, outrosVars>>

Ids == 1..MaxPedidos

\* lib/pix.js: the keys (index 0 and 1), the windows in ms.
CHAVES_PIX == <<"Aleatoria", "E-mail">>
Indices == 0..(Len(CHAVES_PIX) - 1)
INTERVALO_BLOQUEIO_REPETICAO_MS == 21600000
RETENCAO_HISTORICO_MS == 86400000
LIMITE_HISTORICO == 2000
HORA_MS == 3600000

\* Requester ids as messages.upsert or a caller hands them over, character
\* by character: a number written with a sign, another number, an id with
\* no digit, and the empty id of index.js 594.
Remetentes == { <<"+", "8", "6">>, <<"7">>, <<"l", "i", "d">>, << >> }

\* No value: no entry of a Map, no call yet.
Nenhum == [indice |-> -1, timestamp |-> 0]

\* No call of processarMensagemRecebida yet.
SemMensagem ==
    [quem |-> << >>, intencao |-> "nenhuma", quando |-> 0, antes |-> 0,
     resposta |-> "nenhuma"]

\* s without its k-th element
Remove(s, k) == SubSeq(s, 1, k - 1) \o SubSeq(s, k + 1, Len(s))

Pow2(n) == 2 ^ n

\* The counters of the history stop at 2.
Mais(n) == IF n < 2 THEN n + 1 ELSE 2

\* The state after the module is loaded, with the admin's manual_status and
\* the hour of the day as they are then.
InitHist(override, horario, historico, uso) ==
    /\ sock = 0
    /\ socks = << >>
    /\ statusConexao = "desconectado"
    /\ qrCodeAtual = FALSE
    /\ contadorQrCodes = 0
    /\ estaAutenticado = FALSE
    /\ tentativasReconexao = 0
    /\ USAR_SUPABASE_AUTH \in BOOLEAN
    /\ credenciais \in BOOLEAN
    /\ timers = <<0>>
    /\ inicios = << >>
    /\ limpezas = 0
    /\ nReconectar = 0
    /\ relogio = 1
    /\ orders = << >>
    /\ ultimoPedidoProcessado = Nulo
    /\ pedidosProcessados = << >>
    /\ intervaloPolling = FALSE
    /\ pollAtivos = 0
    /\ intervaloVerificacaoLoja = FALSE
    /\ lojaFechadaPeloAdmin = FALSE
    /\ cacheEntregadores = << >>
    /\ configs = << >>
    /\ ticks = << >>
    /\ despachos = << >>
    /\ invocacoes = [i \in Ids |-> 0]
    /\ retornos = [i \in Ids |-> 0]
    /\ semente = Nulo
    /\ enviosRodada = [r \in 1..MaxTicks |-> << >>]
    /\ insercoes = << >>
    /\ transportes = [i \in Ids |-> FALSE]
    /\ ultimoTick = "nenhum"
    /\ chamada = [fn |-> "nenhuma", pedido |-> [telefone |-> "ausente"],
                  pc |-> "fim", espera |-> "fim", lista |-> << >>, e |-> 0]
    /\ tentativasEnvio = << >>
    /\ desfecho = "nenhum"
    /\ inativos = {}
    /\ cacheCarregado = FALSE
    /\ usoPorIndice = uso
    /\ ultimoEnvioPorNumero = historico
    /\ agora = HORA_MS
    /\ entregas = [r \in Remetentes |-> Nenhum]
    /\ ultimaSelecao = Nenhum
    /\ semConflito = TRUE
    /\ ultimasRespostas = [r \in Remetentes |-> 0]
    /\ respostas = << >>
    /\ ultimoRegistro = [r \in Remetentes |-> 0]
    /\ ultimaMensagem = SemMensagem
    /\ manual_status = override
    /\ noHorario = horario
    /\ configuracoesLoja = "null"
    /\ ultimaAtualizacaoConfig = Nulo
    /\ lojaAberta = << >>
    /\ supabaseFora = FALSE

\* The state after construction: no selection made yet.
InitCom(override, horario) ==
    InitHist(override, horario, << >>, [i \in Indices |-> 0])

Init == InitCom("open", TRUE)

(***************************************************************************)
(* Connection manager.                                                     *)
(***************************************************************************)

Vivo(s) == socks[s].estado \in {"conectando", "aberto"}

\* A retry that always waits the base delay.
SemRecuo(t) == DELAY_BASE_RECONEXAO_MS

\* Backoff exponencial (index.js 523): DELAY_BASE * Math.pow(2, t - 1).
DelayReconexao(t) ==
    IF t >= 1
    THEN DELAY_BASE_RECONEXAO_MS * Pow2(t - 1)
    ELSE DELAY_BASE_RECONEXAO_MS \div Pow2(1 - t)

eConexaoInicial == ~estaAutenticado /\ contadorQrCodes = 0

\* The branch the 'close' handler takes for a status code, in the order the
\* handler tests them (index.js 494-537).
RamoClose(code) ==
    IF eConexaoInicial THEN "inicial"
    ELSE IF code = "loggedOut" THEN "logout"
    ELSE IF estaAutenticado \/ code \in Transitorios THEN "backoff"
    ELSE IF contadorQrCodes > 0 THEN "aguardaQr"
    ELSE "fallback"

\* A count that no cap resets.
SemTeto(t) == FALSE

\* The test of index.js 516 on the incremented count.
Estourou(t) == t > MAX_TENTATIVAS_RECONEXAO

\* What the 'close' handler leaves behind: the reconnect-control variables,
\* the delays of the timers it sets (agenda) and whether it is suspended in
\* limparSessao() (limpar).
Fechamento(code) ==
    LET ramo == RamoClose(code)
        t1 == tentativasReconexao + 1
        estourou == Estourou(t1)
        t2 == IF estourou THEN 0 ELSE t1
    IN  CASE ramo = "logout" ->
               [auth |-> FALSE, contador |-> 0, tentativas |-> 0,
                agenda |-> IF USAR_SUPABASE_AUTH THEN << >> ELSE <<DELAY_LOGOUT_MS>>,
                limpar |-> USAR_SUPABASE_AUTH]
          [] ramo = "backoff" ->
               [auth |-> estaAutenticado,
                contador |-> IF estourou THEN 0 ELSE contadorQrCodes,
                tentativas |-> t2,
                agenda |-> <<DelayReconexao(t2)>>,
                limpar |-> FALSE]
          [] ramo = "fallback" ->
               [auth |-> estaAutenticado, contador |-> contadorQrCodes,
                tentativas |-> tentativasReconexao,
                agenda |-> <<DELAY_FALLBACK_MS>>, limpar |-> FALSE]
          [] OTHER ->
               [auth |-> estaAutenticado, contador |-> contadorQrCodes,
                tentativas |-> tentativasReconexao,
                agenda |-> << >>, limpar |-> FALSE]

\* The test of enviarMensagem (index.js 136).
Conectado == sock # 0 /\ statusConexao = "conectado"

\* A timer may fire unless one set earlier with no longer a delay is pending.
PodeDisparar(j) ==
    /\ j \in 1..Len(timers)
    /\ \A i \in 1..(j - 1) : timers[i] > timers[j]

\* iniciarConexaoWhatsApp up to its first await (index.js 397-411): the
\* previous socket loses its listeners and is ended, sock becomes null.
TimerIniciarConexao(j) ==
    /\ PodeDisparar(j)
    /\ timers' = Remove(timers, j)
    /\ IF sock # 0
       THEN /\ socks' = [socks EXCEPT ![sock] = [estado |-> "fechado", ouvintes |-> FALSE]]
            /\ sock' = 0
       ELSE UNCHANGED <<sock, socks>>
    /\ inicios' = Append(inicios, "versao")
    /\ UNCHANGED <<statusConexao, qrCodeAtual, contadorQrCodes, estaAutenticado,
                   tentativasReconexao, USAR_SUPABASE_AUTH, credenciais,
                   limpezas, nReconectar>>
    /\ UNCHANGED <<lojaVars, pollVars, histVars, outrosVars>>

\* A start that takes the stored session for missing.
IniciarSemSessao(k) ==
    /\ k \in 1..Len(inicios)
    /\ inicios[k] = "versao"
    /\ inicios' = [inicios EXCEPT ![k] = "auth"]
    /\ estaAutenticado' = FALSE
    /\ contadorQrCodes' = 0
    /\ UNCHANGED <<sock, socks, statusConexao, qrCodeAtual, tentativasReconexao,
                   USAR_SUPABASE_AUTH, credenciais, timers, limpezas, nReconectar>>
    /\ UNCHANGED <<lojaVars, pollVars, histVars, outrosVars>>

\* After fetchLatestBaileysVersion (index.js 411-438): with the Supabase
\* backend verificarSessaoExistente decides estaAutenticado.
IniciarSessao(k) ==
    /\ k \in 1..Len(inicios)
    /\ inicios[k] = "versao"
    /\ inicios' = [inicios EXCEPT ![k] = "auth"]
    /\ IF USAR_SUPABASE_AUTH
       THEN IF credenciais
            THEN estaAutenticado' = TRUE /\ UNCHANGED contadorQrCodes
            ELSE estaAutenticado' = FALSE /\ contadorQrCodes' = 0
       ELSE UNCHANGED <<estaAutenticado, contadorQrCodes>>
    /\ UNCHANGED <<sock, socks, statusConexao, qrCodeAtual, tentativasReconexao,
                   USAR_SUPABASE_AUTH, credenciais, timers, limpezas, nReconectar>>
    /\ UNCHANGED <<lojaVars, pollVars, histVars, outrosVars>>

\* makeWASocket and the registration of the listeners (index.js 440-460).
IniciarCriarSocket(k) ==
    /\ k \in 1..Len(inicios)
    /\ inicios[k] = "auth"
    /\ inicios' = Remove(inicios, k)
    /\ socks' = Append(socks, [estado |-> "conectando", ouvintes |-> TRUE])
    /\ sock' = Len(socks) + 1
    /\ UNCHANGED <<statusConexao, qrCodeAtual, contadorQrCodes, estaAutenticado,
                   tentativasReconexao, USAR_SUPABASE_AUTH, credenciais, timers,
                   limpezas, nReconectar>>
    /\ UNCHANGED <<lojaVars, pollVars, histVars, outrosVars>>

\* connection.update with a qr (index.js 463-469).
EventoQr(s) ==
    /\ s \in 1..Len(socks)
    /\ socks[s].ouvintes /\ socks[s].estado = "conectando"
    /\ contadorQrCodes' = contadorQrCodes + 1
    /\ qrCodeAtual' = TRUE
    /\ statusConexao' = "aguardando_qr"
    /\ UNCHANGED <<sock, socks, estaAutenticado, tentativasReconexao,
                   USAR_SUPABASE_AUTH, credenciais, timers, inicios, limpezas,
                   nReconectar>>
    /\ UNCHANGED <<lojaVars, pollVars, histVars, outrosVars>>

\* creds.update once the pairing is done: saveCreds persists the session
\* (index.js 561-565).
EventoCredsUpdate(s) ==
    /\ s \in 1..Len(socks)
    /\ socks[s].ouvintes /\ socks[s].estado = "conectando"
    /\ ~credenciais
    /\ credenciais' = TRUE
    /\ UNCHANGED <<sock, socks, statusConexao, qrCodeAtual, contadorQrCodes,
                   estaAutenticado, tentativasReconexao, USAR_SUPABASE_AUTH,
                   timers, inicios, limpezas, nReconectar>>
    /\ UNCHANGED <<lojaVars, pollVars, histVars, outrosVars>>

\* connection.update with connection = 'close' (index.js 471-538).
EventoClose(s, code) ==
    /\ s \in 1..Len(socks)
    /\ socks[s].ouvintes /\ Vivo(s)
    /\ code \in StatusCodes
    /\ LET f == Fechamento(code)
       IN  /\ socks' = [socks EXCEPT ![s].estado = "fechado"]
           /\ statusConexao' = "desconectado"
           /\ qrCodeAtual' = FALSE
           /\ estaAutenticado' = f.auth
           /\ contadorQrCodes' = f.contador
           /\ tentativasReconexao' = f.tentativas
           /\ timers' = timers \o f.agenda
           /\ limpezas' = IF f.limpar THEN limpezas + 1 ELSE limpezas
    /\ UNCHANGED <<sock, USAR_SUPABASE_AUTH, credenciais, inicios, nReconectar>>
    /\ UNCHANGED <<lojaVars, pollVars, histVars, outrosVars>>

\* The logout branch after limparSessao() settles (index.js 505-509;
\* limparSessao: part_003 286-302, which swallows a failed delete).
LimparSessaoFim(apagou) ==
    /\ limpezas > 0
    /\ limpezas' = limpezas - 1
    /\ credenciais' = IF apagou THEN FALSE ELSE credenciais
    /\ timers' = Append(timers, DELAY_LOGOUT_MS)
    /\ UNCHANGED <<sock, socks, statusConexao, qrCodeAtual, contadorQrCodes,
                   estaAutenticado, tentativasReconexao, USAR_SUPABASE_AUTH,
                   inicios, nReconectar>>
    /\ UNCHANGED <<lojaVars, pollVars, histVars, outrosVars>>

\* POST /reconectar (index.js 682-694): sock.end() makes a live socket emit
\* its 'close' (no status code) to the listeners at once; then the route sets
\* its own timer.
PostReconectar ==
    LET emite == sock # 0 /\ Vivo(sock) /\ socks[sock].ouvintes
        f == Fechamento("indefinido")
    IN  /\ nReconectar' = nReconectar + 1
        /\ IF sock # 0 /\ Vivo(sock)
           THEN socks' = [socks EXCEPT ![sock].estado = "fechado"]
           ELSE UNCHANGED socks
        /\ IF emite
           THEN /\ statusConexao' = "desconectado"
                /\ qrCodeAtual' = FALSE
                /\ estaAutenticado' = f.auth
                /\ contadorQrCodes' = f.contador
                /\ tentativasReconexao' = f.tentativas
                /\ timers' = (timers \o f.agenda) \o <<DELAY_RECONECTAR_MS>>
           ELSE /\ timers' = Append(timers, DELAY_RECONECTAR_MS)
                /\ UNCHANGED <<statusConexao, qrCodeAtual, estaAutenticado,
                               contadorQrCodes, tentativasReconexao>>
        /\ UNCHANGED <<sock, USAR_SUPABASE_AUTH, credenciais, inicios, limpezas>>
        /\ UNCHANGED <<lojaVars, pollVars, histVars, outrosVars>>

\* POST /desconectar (index.js 751-764): with a socket in sock, sock.end()
\* makes it emit its 'close' (no status code) to the listeners at once if it
\* is live, and the route then sets statusConexao; with sock null, nothing.
PostDesconectar ==
    LET emite == sock # 0 /\ Vivo(sock) /\ socks[sock].ouvintes
        f == Fechamento("indefinido")
    IN  /\ sock # 0
        /\ socks' = [socks EXCEPT ![sock].estado = "fechado"]
        /\ statusConexao' = "desconectado"
        /\ IF emite
           THEN /\ qrCodeAtual' = FALSE
                /\ estaAutenticado' = f.auth
                /\ contadorQrCodes' = f.contador
                /\ tentativasReconexao' = f.tentativas
                /\ timers' = timers \o f.agenda
           ELSE UNCHANGED <<qrCodeAtual, estaAutenticado, contadorQrCodes,
                            tentativasReconexao, timers>>
        /\ UNCHANGED <<sock, USAR_SUPABASE_AUTH, credenciais, inicios, limpezas,
                       nReconectar>>
        /\ UNCHANGED <<lojaVars, pollVars, histVars, outrosVars>>

\* connection.update with connection = 'open' (index.js 540-557).  The
\* handler reads sock.user, which throws when sock is null, and then calls
\* configurarPollingPedidos, which runs up to its first await (index.js
\* 266-277): the polling interval the variable holds is cleared.  The
\* transport opens a session only with credentials of a paired account, which
\* creds.update has handed to saveCreds by then.
EventoOpen(s) ==
    /\ s \in 1..Len(socks)
    /\ socks[s].ouvintes /\ socks[s].estado = "conectando"
    /\ credenciais
    /\ socks' = [socks EXCEPT ![s].estado = "aberto"]
    /\ statusConexao' = "conectado"
    /\ qrCodeAtual' = FALSE
    /\ estaAutenticado' = TRUE
    /\ tentativasReconexao' = 0
    /\ IF sock = 0
       THEN UNCHANGED <<intervaloPolling, pollAtivos, configs>>
       ELSE /\ intervaloPolling' = FALSE
            /\ pollAtivos' = IF intervaloPolling THEN pollAtivos - 1 ELSE pollAtivos
            /\ configs' = Append(configs, [pc |-> "cache", lido |-> Nulo])
    /\ UNCHANGED <<sock, contadorQrCodes, USAR_SUPABASE_AUTH, credenciais, timers,
                   inicios, limpezas, nReconectar>>
    /\ UNCHANGED <<ultimoPedidoProcessado, pedidosProcessados,
                   intervaloVerificacaoLoja, lojaFechadaPeloAdmin,
                   cacheEntregadores, ticks, despachos>>
    /\ UNCHANGED <<lojaVars, histVars, outrosVars>>

(***************************************************************************)
(* The order store.                                                        *)
(***************************************************************************)

\* The store creates an order: created_at is the time of the store, which
\* never goes back; junto: in the same instant as the order before it.
\* comLojaFechada notes whether the bot held the store for closed then.
NovoPedido(tipo, junto) ==
    /\ tipo \in TiposPedido
    /\ IF junto
       THEN /\ orders # << >>
            /\ orders[Len(orders)].created_at = relogio
            /\ UNCHANGED relogio
       ELSE relogio' = relogio + 1
    /\ orders' = Append(orders, [created_at |-> relogio', telefone |-> tipo.telefone,
                                 entrega |-> tipo.entrega,
                                 malformado |-> tipo.malformado,
                                 status |-> "pending",
                                 comLojaFechada |-> lojaFechadaPeloAdmin])
    /\ UNCHANGED <<outrosVars, connVars, pollVars, histVars>>

\* The admin panel moves an order to another status.
MudaStatus(id, status) ==
    /\ id \in 1..Len(orders)
    /\ orders[id].status # status
    /\ orders' = [orders EXCEPT ![id].status = status]
    /\ UNCHANGED relogio
    /\ UNCHANGED <<outrosVars, connVars, pollVars, histVars>>

(***************************************************************************)
(* configurarPollingPedidos and verificarStatusLoja.                       *)
(***************************************************************************)

\* The newest order's created_at, as the query of index.js 280-285 reads it;
\* Nulo when .single() has no row to give.
UltimoPedido == IF orders = << >> THEN Nulo ELSE orders[Len(orders)].created_at

\* atualizarCacheEntregadores settles (index.js 74-88, 277) and the query for
\* the newest order is answered; erro: the query failed, data is null.
ConfigCache(c, lista, erro) ==
    /\ c \in 1..Len(configs)
    /\ configs[c].pc = "cache"
    /\ lista \in {Entregadores, << >>}
    /\ cacheEntregadores' = lista
    /\ configs' = [configs EXCEPT ![c] =
                     [pc |-> "semente", lido |-> IF erro THEN Nulo ELSE UltimoPedido]]
    /\ UNCHANGED <<ultimoPedidoProcessado, pedidosProcessados, intervaloPolling,
                   pollAtivos, intervaloVerificacaoLoja, lojaFechadaPeloAdmin,
                   ticks, despachos>>
    /\ UNCHANGED <<outrosVars, connVars, lojaVars, histVars>>

\* The cursor is seeded and both intervals are installed (index.js 287-303).
\* new Date() reads the clock: a later order is stamped after it.
ConfigSemente(c) ==
    /\ c \in 1..Len(configs)
    /\ configs[c].pc = "semente"
    /\ IF configs[c].lido # Nulo
       THEN /\ ultimoPedidoProcessado' = configs[c].lido
            /\ UNCHANGED relogio
       ELSE /\ relogio' = relogio + 1
            /\ ultimoPedidoProcessado' = relogio'
    /\ intervaloPolling' = TRUE
    /\ pollAtivos' = pollAtivos + 1
    /\ intervaloVerificacaoLoja' = TRUE
    /\ configs' = [configs EXCEPT ![c].pc = "loja"]
    /\ semente' = IF semente = Nulo THEN ultimoPedidoProcessado' ELSE semente
    /\ UNCHANGED <<pedidosProcessados, lojaFechadaPeloAdmin, cacheEntregadores,
                   ticks, despachos>>
    /\ UNCHANGED orders
    /\ UNCHANGED <<invocacoes, retornos, enviosRodada, insercoes, transportes,
                   ultimoTick>>
    /\ UNCHANGED <<outrosVars, connVars>>

\* What the admin leaves in store_settings.manual_status: 'open', 'closed',
\* a row with neither value ("vazio"), or no row ("semLinha").
Overrides == {"open", "closed", "vazio", "semLinha"}

\* What a read of store_settings.manual_status gives: the admin's value, or
\* an error.
LeiturasStatus == Overrides \cup {"erro"}

\* A verificarStatusLoja that took a failed read for a store that is open.
SemRetencao(lido) == lido = "closed"

\* verificarStatusLoja (index.js 311-334): a failed read changes nothing, and
\* .single() reports a missing row as an error.
StatusLido(lido) ==
    IF lido \in {"erro", "semLinha"} THEN lojaFechadaPeloAdmin ELSE lido = "closed"

\* The await verificarStatusLoja() that ends configurarPollingPedidos.
ConfigLoja(c, lido) ==
    /\ c \in 1..Len(configs)
    /\ configs[c].pc = "loja"
    /\ lido \in LeiturasStatus
    /\ lojaFechadaPeloAdmin' = StatusLido(lido)
    /\ configs' = Remove(configs, c)
    /\ UNCHANGED <<ultimoPedidoProcessado, pedidosProcessados, intervaloPolling,
                   pollAtivos, intervaloVerificacaoLoja, cacheEntregadores,
                   ticks, despachos>>
    /\ UNCHANGED <<outrosVars, connVars, lojaVars, histVars>>

\* verificarStatusLoja fired by its interval.
TimerVerificarStatusLoja(lido) ==
    /\ intervaloVerificacaoLoja
    /\ lido \in LeiturasStatus
    /\ lojaFechadaPeloAdmin' = StatusLido(lido)
    /\ UNCHANGED <<ultimoPedidoProcessado, pedidosProcessados, intervaloPolling,
                   pollAtivos, intervaloVerificacaoLoja, cacheEntregadores,
                   configs, ticks, despachos>>
    /\ UNCHANGED <<outrosVars, connVars, lojaVars, histVars>>

(***************************************************************************)
(* verificarNovosPedidos and processarNovoPedido.                          *)
(***************************************************************************)

Range(s) == {s[i] : i \in 1..Len(s)}

\* The ids of the orders with created_at > cursor, in creation order.
Depois(cursor) ==
    LET F[n \in 0..Len(orders)] ==
            IF n = 0 THEN << >>
            ELSE IF orders[n].created_at > cursor THEN Append(F[n - 1], n)
                 ELSE F[n - 1]
    IN  F[Len(orders)]

Primeiros(s, n) == SubSeq(s, 1, IF Len(s) < n THEN Len(s) ELSE n)

\* The query of index.js 347-352: created_at > cursor, ascending, limit 10.
\* The store stamps orders in creation order, so creation order is ascending
\* created_at.
FetchPedidos(cursor) == Primeiros(Depois(cursor), LIMITE_LOTE)

\* A loop that does not wait for the call it made.
SemAwait(rodada) == TRUE

\* await processarNovoPedido(pedido) (index.js 374): the tick goes on once the
\* call it made has settled.
DespachoTerminou(rodada) ==
    \A d \in 1..Len(despachos) : despachos[d].rodada # rodada

\* A trim that keeps the MAX_PEDIDOS_CACHE oldest ids.
CortaNovos(ids, id) ==
    LET s1 == IF id \in Range(ids) THEN ids ELSE Append(ids, id)
    IN  SubSeq(s1, 1, IF Len(s1) > MAX_PEDIDOS_CACHE THEN MAX_PEDIDOS_CACHE ELSE Len(s1))

\* pedidosProcessados.add and the trimming of the Set to its newest
\* MAX_PEDIDOS_CACHE ids (index.js 377-384); a Set keeps insertion order.
MarcaProcessado(ids, id) ==
    LET s1 == IF id \in Range(ids) THEN ids ELSE Append(ids, id)
    IN  IF Len(s1) > MAX_PEDIDOS_CACHE
        THEN SubSeq(s1, Len(s1) - MAX_PEDIDOS_CACHE + 1, Len(s1))
        ELSE s1

\* The history of pedidosProcessados.add: the id, when the Set did not hold it.
Inserido(h, ids, id) == IF id \in Range(ids) THEN h ELSE Append(h, id)

\* A loop that a skipped order ends.
Para(k) == Remove(ticks, k)

\* The for loop moves to its next order, or the call returns.
SegueLaco(k) ==
    IF ticks[k].i < Len(ticks[k].lote)
    THEN [ticks EXCEPT ![k].i = ticks[k].i + 1, ![k].pc = "laco"]
    ELSE Remove(ticks, k)

\* The calls in flight are kept by the name of their run: x goes after the
\* calls of its run and of the runs before it.
Insere(s, x) ==
    LET F[n \in 0..Len(s)] ==
            IF n = 0 THEN 0
            ELSE IF s[n].rodada <= x.rodada THEN n ELSE F[n - 1]
        p == F[Len(s)]
    IN  (SubSeq(s, 1, p) \o <<x>>) \o SubSeq(s, p + 1, Len(s))

\* The history of sends keeps the calls in flight only.
EmVoo(tk, h) ==
    [r \in DOMAIN h |->
        IF \E k \in 1..Len(tk) : tk[k].rodada = r THEN h[r] ELSE << >>]

\* The name of a call of verificarNovosPedidos: the least number no call in
\* flight bears.
RodadaLivre ==
    CHOOSE r \in 1..(Len(ticks) + 1) :
        /\ \A k \in 1..Len(ticks) : ticks[k].rodada # r
        /\ \A q \in 1..(r - 1) : \E k \in 1..Len(ticks) : ticks[k].rodada = q

\* The polling interval fires (index.js 295, 340-352): nothing when the store
\* is closed; else the query is built with the cursor as it is now.
TimerVerificarNovosPedidos ==
    /\ pollAtivos > 0
    /\ IF lojaFechadaPeloAdmin
       THEN UNCHANGED <<ticks, enviosRodada>>
       ELSE LET r == RodadaLivre
            IN  /\ ticks' = Insere(ticks, [rodada |-> r,
                                            cursor |-> ultimoPedidoProcessado,
                                            lote |-> << >>, i |-> 0, pc |-> "fetch"])
                /\ enviosRodada' = [enviosRodada EXCEPT ![r] = << >>]
    /\ UNCHANGED <<ultimoPedidoProcessado, pedidosProcessados, intervaloPolling,
                   pollAtivos, intervaloVerificacaoLoja, lojaFechadaPeloAdmin,
                   cacheEntregadores, configs, despachos>>
    /\ ultimoTick' = IF lojaFechadaPeloAdmin THEN "fechado" ELSE "nenhum"
    /\ UNCHANGED <<invocacoes, retornos, semente, insercoes, transportes>>
    /\ UNCHANGED <<outrosVars, connVars, lojaVars>>

\* The query settles (index.js 354-360): an error or an empty result ends the
\* call.
TickFetch(k, erro) ==
    /\ k \in 1..Len(ticks)
    /\ ticks[k].pc = "fetch"
    /\ LET lote == IF erro THEN << >> ELSE FetchPedidos(ticks[k].cursor)
       IN  /\ ticks' = IF lote = << >>
                       THEN Remove(ticks, k)
                       ELSE [ticks EXCEPT ![k].lote = lote, ![k].i = 1, ![k].pc = "laco"]
           /\ retornos' = [id \in Ids |->
                             IF id \in Range(lote) THEN Mais(retornos[id]) ELSE retornos[id]]
    /\ UNCHANGED <<ultimoPedidoProcessado, pedidosProcessados, intervaloPolling,
                   pollAtivos, intervaloVerificacaoLoja, lojaFechadaPeloAdmin,
                   cacheEntregadores, configs, despachos>>
    /\ enviosRodada' = EmVoo(ticks', enviosRodada)
    /\ ultimoTick' = IF erro THEN "erro" ELSE "nenhum"
    /\ UNCHANGED <<invocacoes, semente, insercoes, transportes>>
    /\ UNCHANGED <<outrosVars, connVars, lojaVars>>

\* One turn of the loop up to its await (index.js 362-374).  An order already
\* in pedidosProcessados only moves the cursor.  Else processarNovoPedido is
\* called; it builds its first message (gerarMensagemCliente, or
\* gerarMensagemPedidoRecebido without a phone) before any send, and
\* formatarItensPedido (part_000 179-203) throws on malformed items: the
\* rejection lands in the catch of index.js 389 and the call returns.
TickLaco(k) ==
    /\ k \in 1..Len(ticks)
    /\ ticks[k].pc = "laco"
    /\ LET id == ticks[k].lote[ticks[k].i]
           pedido == orders[id]
       IN  IF id \in Range(pedidosProcessados)
           THEN /\ ultimoPedidoProcessado' = pedido.created_at
                /\ ticks' = SegueLaco(k)
                /\ UNCHANGED <<despachos, invocacoes>>
           ELSE /\ invocacoes' = [invocacoes EXCEPT ![id] = Mais(@)]
                /\ UNCHANGED ultimoPedidoProcessado
                /\ IF pedido.malformado /\ (pedido.telefone \/ NUMERO_LOJA)
                   THEN /\ ticks' = Remove(ticks, k)
                        /\ UNCHANGED despachos
                   ELSE /\ ticks' = [ticks EXCEPT ![k].pc = "aguarda"]
                        /\ despachos' =
                             Insere(despachos,
                                    [rodada |-> ticks[k].rodada, id |-> id,
                                     pc |-> IF pedido.telefone THEN "cliente" ELSE "loja",
                                     lista |-> << >>, e |-> 0])
    /\ UNCHANGED <<pedidosProcessados, intervaloPolling, pollAtivos,
                   intervaloVerificacaoLoja, lojaFechadaPeloAdmin,
                   cacheEntregadores, configs>>
    /\ enviosRodada' = EmVoo(ticks', enviosRodada)
    /\ UNCHANGED <<retornos, semente, insercoes, transportes, ultimoTick>>
    /\ UNCHANGED <<outrosVars, connVars, lojaVars>>

\* After the await (index.js 376-386): the id is marked and the cursor moves.
TickRetoma(k) ==
    /\ k \in 1..Len(ticks)
    /\ ticks[k].pc = "aguarda"
    /\ DespachoTerminou(ticks[k].rodada)
    /\ LET id == ticks[k].lote[ticks[k].i]
       IN  /\ pedidosProcessados' = MarcaProcessado(pedidosProcessados, id)
           /\ insercoes' = Inserido(insercoes, pedidosProcessados, id)
           /\ ultimoPedidoProcessado' = orders[id].created_at
    /\ ticks' = SegueLaco(k)
    /\ enviosRodada' = EmVoo(ticks', enviosRodada)
    /\ UNCHANGED <<intervaloPolling, pollAtivos, intervaloVerificacaoLoja,
                   lojaFechadaPeloAdmin, cacheEntregadores, configs, despachos>>
    /\ UNCHANGED <<invocacoes, retornos, semente, transportes, ultimoTick>>
    /\ UNCHANGED <<outrosVars, connVars, lojaVars>>

\* The history of a send attempt: the order, once per run of attempts.
Anota(rodada, id) ==
    LET h == enviosRodada[rodada]
    IN  IF h # << >> /\ h[Len(h)] = id
        THEN enviosRodada
        ELSE [enviosRodada EXCEPT ![rodada] = Append(h, id)]

\* Where processarNovoPedido goes after a send (index.js 165-215).
AposEnvio(d) ==
    CASE d.pc = "cliente" -> IF NUMERO_LOJA THEN [d EXCEPT !.pc = "loja"]
                             ELSE IF orders[d.id].entrega
                                  THEN [d EXCEPT !.pc = "entregadores"]
                                  ELSE [d EXCEPT !.pc = "fim"]
      [] d.pc = "loja" -> IF orders[d.id].entrega
                          THEN [d EXCEPT !.pc = "entregadores"]
                          ELSE [d EXCEPT !.pc = "fim"]
      [] d.pc = "entregador" -> IF d.e < Len(d.lista)
                                THEN [d EXCEPT !.e = d.e + 1]
                                ELSE [d EXCEPT !.pc = "fim"]
      [] OTHER -> d

\* One enviarMensagem of processarNovoPedido (index.js 135-157, 171-189,
\* 202-212): to the customer, to the store, to a courier.  It calls
\* sock.sendMessage only with a socket and statusConexao 'conectado'.
DespachoEnvia(d) ==
    /\ d \in 1..Len(despachos)
    /\ despachos[d].pc \in {"cliente", "loja", "entregador"}
    /\ enviosRodada' = Anota(despachos[d].rodada, despachos[d].id)
    /\ transportes' = IF Conectado
                      THEN [transportes EXCEPT ![despachos[d].id] = TRUE]
                      ELSE transportes
    /\ LET prox == AposEnvio(despachos[d])
       IN  despachos' = IF prox.pc = "fim"
                        THEN Remove(despachos, d)
                        ELSE [despachos EXCEPT ![d] = prox]
    /\ UNCHANGED <<ultimoPedidoProcessado, pedidosProcessados, intervaloPolling,
                   pollAtivos, intervaloVerificacaoLoja, lojaFechadaPeloAdmin,
                   cacheEntregadores, configs, ticks>>
    /\ UNCHANGED <<invocacoes, retornos, semente, insercoes, ultimoTick>>
    /\ UNCHANGED <<outrosVars, connVars, lojaVars>>

\* obterEntregadores (index.js 93-99, 193-198): the cache, refreshed when it
\* is older than INTERVALO_CACHE_MS; no courier ends the call.
DespachoEntregadores(d, renova, lista) ==
    /\ d \in 1..Len(despachos)
    /\ despachos[d].pc = "entregadores"
    /\ lista \in {Entregadores, << >>}
    /\ cacheEntregadores' = IF renova THEN lista ELSE cacheEntregadores
    /\ despachos' = IF cacheEntregadores' = << >>
                    THEN Remove(despachos, d)
                    ELSE [despachos EXCEPT ![d].pc = "entregador",
                                           ![d].lista = cacheEntregadores',
                                           ![d].e = 1]
    /\ UNCHANGED <<ultimoPedidoProcessado, pedidosProcessados, intervaloPolling,
                   pollAtivos, intervaloVerificacaoLoja, lojaFechadaPeloAdmin,
                   configs, ticks>>
    /\ UNCHANGED <<outrosVars, connVars, lojaVars, histVars>>

(***************************************************************************)
(* Specifications.                                                         *)
(***************************************************************************)

ConexaoPasso(maxSocks, codes) ==
    \/ \E j \in 1..Len(timers) : TimerIniciarConexao(j)
    \/ \E k \in 1..Len(inicios) : IniciarSessao(k)
    \/ \E k \in 1..Len(inicios) : Len(socks) < maxSocks /\ IniciarCriarSocket(k)
    \/ \E s \in 1..Len(socks) : EventoOpen(s)
    \/ \E s \in 1..Len(socks), code \in codes : EventoClose(s, code)

NextConn ==
    \/ ConexaoPasso(MaxSocksConn, StatusCodes)
    \/ \E apagou \in BOOLEAN : LimparSessaoFim(apagou)
    \/ \E s \in 1..Len(socks) : contadorQrCodes < MaxQr /\ EventoQr(s)
    \/ \E s \in 1..Len(socks) : EventoCredsUpdate(s)
    \/ nReconectar < MaxReconectar /\ PostReconectar

SpecConn == Init /\ [][NextConn]_vars

PollerPasso(maxTicks) ==
    \/ \E tipo \in TiposPedido, junto \in BOOLEAN :
          Len(orders) < MaxPedidos /\ NovoPedido(tipo, junto)
    \/ \E c \in 1..Len(configs), erro \in BOOLEAN :
          ConfigCache(c, Entregadores, erro)
    \/ \E c \in 1..Len(configs) : ConfigSemente(c)
    \/ \E c \in 1..Len(configs), lido \in LeiturasStatus : ConfigLoja(c, lido)
    \/ \E lido \in LeiturasStatus : TimerVerificarStatusLoja(lido)
    \/ Len(ticks) < maxTicks /\ TimerVerificarNovosPedidos
    \/ \E k \in 1..Len(ticks), erro \in BOOLEAN : TickFetch(k, erro)
    \/ \E k \in 1..Len(ticks) : TickLaco(k)
    \/ \E k \in 1..Len(ticks) : TickRetoma(k)
    \/ \E d \in 1..Len(despachos) : DespachoEnvia(d)
    \/ \E d \in 1..Len(despachos), renova \in BOOLEAN :
          DespachoEntregadores(d, renova, Entregadores)

NextPoller ==
    \/ ConexaoPasso(MaxSocksPoller, {"connectionLost"})
    \/ PollerPasso(MaxTicks)

InitPoller == Init /\ USAR_SUPABASE_AUTH /\ credenciais

SpecPoller == InitPoller /\ [][NextPoller]_vars

\* The runs of verificarNovosPedidos one after the other, none overlapping.
NextSerial ==
    \/ ConexaoPasso(MaxSocksSerial, {"connectionLost"})
    \/ PollerPasso(1)

SpecSerial == InitPoller /\ [][NextSerial]_vars

\* What the claims on liveness take for granted: a timer that is set fires, an
\* awaited operation settles, and the fetch of the orders succeeds again and
\* again.
Vivacidade ==
    /\ WF_vars(Len(ticks) < 1 /\ TimerVerificarNovosPedidos)
    /\ SF_vars(\E k \in 1..Len(ticks) : TickFetch(k, FALSE))
    /\ WF_vars(\E k \in 1..Len(ticks) : TickLaco(k))
    /\ WF_vars(\E k \in 1..Len(ticks) : TickRetoma(k))
    /\ WF_vars(\E d \in 1..Len(despachos) : DespachoEnvia(d))
    /\ WF_vars(\E d \in 1..Len(despachos), renova \in BOOLEAN :
                  DespachoEntregadores(d, renova, Entregadores))
    /\ WF_vars(\E c \in 1..Len(configs), erro \in BOOLEAN :
                  ConfigCache(c, Entregadores, erro))
    /\ WF_vars(\E c \in 1..Len(configs) : ConfigSemente(c))
    /\ WF_vars(\E c \in 1..Len(configs), lido \in LeiturasStatus : ConfigLoja(c, lido))

FairSpecSerial == SpecSerial /\ Vivacidade

(***************************************************************************)
(* The order poller: deduplication, overlap, cursor, ingestion, ordering.  *)
(***************************************************************************)

\* C1: an order id that the fetch returned in two runs of
\* verificarNovosPedidos, one after the other and not overlapping, has been
\* passed to processarNovoPedido exactly once when the runs are over.
C1_Dedup ==
    \A id \in Ids :
        (retornos[id] >= 2 /\ ticks = << >>) => invocacoes[id] = 1

\* C2: at most one call of verificarNovosPedidos is in flight at any time: a
\* firing of the interval while a call is in flight starts no second call.
C2_UmTickPorVez == Len(ticks) <= 1

\* C3: once seeded, ultimoPedidoProcessado never decreases, and after an
\* order is handled by a run the cursor equals that order's created_at.
C3_CursorMonotono ==
    [][ /\ ultimoPedidoProcessado # Nulo =>
              ultimoPedidoProcessado' >= ultimoPedidoProcessado
        /\ \A k \in 1..Len(ticks) :
              TickRetoma(k) =>
                  ultimoPedidoProcessado' = orders[ticks[k].lote[ticks[k].i]].created_at
      ]_vars

Criado(id) == id \in 1..Len(orders)

\* C4: if the store is eventually open for good (and the fetches succeed again
\* and again), every order created with a created_at later than the cursor
\* seeded at startup is eventually passed to processarNovoPedido.
C4_AoMenosUmaVez ==
    (<>[](~lojaFechadaPeloAdmin)) =>
        \A id \in Ids :
            [](( /\ Criado(id)
                 /\ semente # Nulo
                 /\ orders[id].created_at > semente )
               => <>(invocacoes[id] >= 1))

\* The orders of a history of sends are in ascending created_at order, and
\* none comes back after another one.
Ascendente(h) ==
    \A a, b \in 1..Len(h) :
        a < b => /\ h[a] # h[b]
                 /\ orders[h[a]].created_at <= orders[h[b]].created_at

\* C5: within one run of verificarNovosPedidos the orders are dispatched in
\* ascending created_at order, and every send attempt for one order is done
\* before the first send attempt for the next.
C5_OrdemNoTick == \A r \in 1..MaxTicks : Ascendente(enviosRodada[r])

\* A run has sent for two orders of distinct created_at, one after the other.
C5_Witness ==
    \E r \in 1..MaxTicks :
        /\ Len(enviosRodada[r]) = 2
        /\ orders[enviosRodada[r][1]].created_at < orders[enviosRodada[r][2]].created_at

(***************************************************************************)
(* The connection manager: stale handles, closures, logout, backoff.       *)
(***************************************************************************)

\* The variables by which the manager decides its state and its reconnects.
controleConexao ==
    <<statusConexao, qrCodeAtual, contadorQrCodes, estaAutenticado,
      tentativasReconexao, timers, limpezas>>

\* C6: a qr, open or close event of a socket handle other than the one made
\* last changes nothing of the connection state and schedules no reconnect.
C6_EventoObsoletoIgnorado ==
    [][ \A s \in 1..Len(socks) :
          ( /\ s < Len(socks)
            /\ \/ EventoQr(s)
               \/ EventoOpen(s)
               \/ \E code \in StatusCodes : EventoClose(s, code) )
          => UNCHANGED controleConexao
      ]_vars

\* C7: at most one socket handle with its listeners attached is live at any
\* time.
C7_UmaSessaoViva ==
    Cardinality({s \in 1..Len(socks) : socks[s].ouvintes /\ Vivo(s)}) <= 1

\* A closure the manager is to retry: its code is transient, or it arrives
\* while estaAutenticado holds; a logout has its own rule.
Retenta(code) ==
    /\ code # "loggedOut"
    /\ code \in Transitorios \/ estaAutenticado

\* C8: every close that is transient or arrives while authenticated schedules
\* a call of iniciarConexaoWhatsApp, whatever estaAutenticado and
\* contadorQrCodes are.
C8_TransitorioSempreRetenta ==
    [][ \A s \in 1..Len(socks), code \in StatusCodes :
          (EventoClose(s, code) /\ Retenta(code))
          => Len(timers') = Len(timers) + 1
      ]_vars

\* C9: every close with the code loggedOut, in any state and with either
\* backend, clears the persisted credentials, sets estaAutenticado to false
\* and both counters to 0, and schedules iniciarConexaoWhatsApp after 2000 ms.
C9_LogoutForcado ==
    [][ /\ \A s \in 1..Len(socks) :
              EventoClose(s, "loggedOut") =>
                  /\ ~estaAutenticado'
                  /\ contadorQrCodes' = 0
                  /\ tentativasReconexao' = 0
                  /\ IF USAR_SUPABASE_AUTH
                     THEN limpezas' = limpezas + 1
                     ELSE /\ ~credenciais'
                          /\ timers' = Append(timers, DELAY_LOGOUT_MS)
        /\ \A apagou \in BOOLEAN :
              LimparSessaoFim(apagou) =>
                  /\ ~credenciais'
                  /\ timers' = Append(timers, DELAY_LOGOUT_MS)
      ]_vars

\* The delay of the closure that follows n closures retried in a row: the
\* base, doubled by each of them; the base again past the cap.
DelayEsperado(n) ==
    IF n < MAX_TENTATIVAS_RECONEXAO
    THEN DELAY_BASE_RECONEXAO_MS * Pow2(n)
    ELSE DELAY_BASE_RECONEXAO_MS

\* C10: a closure retried with backoff is scheduled after the base delay
\* doubled by each closure retried before it since the last reset, up to
\* MAX_TENTATIVAS_RECONEXAO attempts; the closure past that cap is scheduled
\* after the base delay.
C10_Backoff ==
    [][ \A s \in 1..Len(socks), code \in StatusCodes :
          (EventoClose(s, code) /\ RamoClose(code) = "backoff")
          => timers' = Append(timers, DelayEsperado(tentativasReconexao))
      ]_vars

(***************************************************************************)
(* One dispatch followed send by send: enviarMensagem, processarNovoPedido,*)
(* processarAtualizacaoStatus and POST /enviar.                            *)
(*                                                                         *)
(* One call is followed at a time.  chamada.espera tells what the call is  *)
(* suspended on: "transporte" (sock.sendMessage), "diretorio" (the courier *)
(* directory), "delay" (the 500 ms timer), or "nada" when the awaited      *)
(* promise is already settled and the continuation is the next job of the  *)
(* microtask queue, before any event of the outside.                       *)
(***************************************************************************)

\* What a recipient value can be: absent (undefined, null, ''), a string, or
\* a truthy value that is not a string (a number of a JSON body or column).
Telefones == {"ausente", "texto", "naoTexto"}

\* The shape of a payload: well formed; items holding a null entry; id a
\* number with no order_number.
Formas == {"ok", "itensNulos", "idNumerico"}

StatusPedido == {"pending", "confirmed", "ready", "pronto", "delivered", "cancelled"}

\* statusNotificar (index.js 221-228), among the values of StatusPedido.
statusNotificar == {"confirmed", "ready", "pronto", "delivered"}

Payloads ==
    [telefone : Telefones, entrega : BOOLEAN, forma : Formas, status : StatusPedido]

\* The rows of 'funcionarios' with cargo 'entregador'.
Funcionarios ==
    << [nome |-> "A", telefone |-> "texto"],
       [nome |-> "X", telefone |-> "ausente"],
       [nome |-> "B", telefone |-> "texto"],
       [nome |-> "C", telefone |-> "texto"] >>

RECURSIVE ComTelefone(_)
ComTelefone(linhas) ==
    IF linhas = << >> THEN << >>
    ELSE IF Head(linhas).telefone = "ausente"
         THEN ComTelefone(Tail(linhas))
         ELSE <<Head(linhas)>> \o ComTelefone(Tail(linhas))

\* The rows the query of lib/supabase.js 45-49 selects: those with ativo.
Ativos == SelectSeq(Funcionarios, LAMBDA f : f.nome \notin inativos)

\* buscarEntregadoresAtivos (lib/supabase.js 43-62): the rows that have a
\* phone; [] when the read fails.
buscarEntregadoresAtivos(erro) == IF erro THEN << >> ELSE ComTelefone(Ativos)

\* formatarNumeroWhatsApp (index.js 105-130): null for a falsy value and a
\* jid for a string; any other value has no method replace, and line 109
\* throws a TypeError.
formatarNumeroWhatsApp(telefone) ==
    CASE telefone = "ausente" -> "null"
      [] telefone = "texto" -> "jid"
      [] OTHER -> "TypeError"

\* enviarMensagem up to its await (index.js 135-147): "false" when it returns
\* false at once, "lanca" when formatarNumeroWhatsApp, called outside the try,
\* throws, "transporte" when sock.sendMessage is called.
enviarMensagemInicio(telefone) ==
    IF ~Conectado THEN "false"
    ELSE LET jid == formatarNumeroWhatsApp(telefone)
         IN  IF jid = "TypeError" THEN "lanca"
             ELSE IF jid = "null" THEN "false"
             ELSE "transporte"

\* What a stretch of code between two awaits does.
Rejeita == [tipo |-> "rejeita"]
Retorna == [tipo |-> "retorna"]
Tenta(dest, telefone, depois) ==
    [tipo |-> "tenta", dest |-> dest, telefone |-> telefone, depois |-> depois]

\* The message generators of lib/mensagens.js that list the items
\* (formatarItensPedido reads a field of each item) throw on a null item.
GeradorLanca(p) == p.forma = "itensNulos"

\* index.js 191-192 and 214.
BlocoTipo(p) == IF p.entrega THEN [tipo |-> "obter"] ELSE Retorna

\* index.js 180-189.
BlocoLoja(p) ==
    IF ~NUMERO_LOJA THEN BlocoTipo(p)
    ELSE IF GeradorLanca(p) THEN Rejeita
    ELSE Tenta("loja", "texto", "tipo")

\* index.js 169-178.
BlocoCliente(p) ==
    IF p.telefone = "ausente" THEN BlocoLoja(p)
    ELSE IF GeradorLanca(p) THEN Rejeita
    ELSE Tenta("cliente", p.telefone, "loja")

\* index.js 166-168: pedido.id?.slice(0, 8) is evaluated when order_number is
\* absent, and a number has no method slice.
BlocoInicio(p) == IF p.forma = "idNumerico" THEN Rejeita ELSE BlocoCliente(p)

\* index.js 202-212: the next courier with a phone, from position e on.
BlocoLaco(lista, e) ==
    LET cand == {i \in e..Len(lista) : lista[i].telefone # "ausente"}
    IN  IF cand = {} THEN Retorna
        ELSE LET i == CHOOSE j \in cand : \A k \in cand : j <= k
             IN  [tipo |-> "tenta", dest |-> lista[i].nome,
                  telefone |-> lista[i].telefone, depois |-> "delay", e |-> i]

\* index.js 193-200: the list obterEntregadores returned.
BlocoLista(p, lista) ==
    IF Len(lista) = 0 THEN Retorna
    ELSE IF GeradorLanca(p) THEN Rejeita
    ELSE BlocoLaco(lista, 1)

\* index.js 240-245.
BlocoStatusCliente(p) ==
    IF p.status \in {"ready", "pronto"} /\ p.telefone # "ausente"
    THEN IF p.forma = "idNumerico" THEN Rejeita
         ELSE Tenta("cliente", p.telefone, "retorna")
    ELSE Retorna

\* index.js 221-238.
BlocoStatus(p) ==
    IF p.status \notin statusNotificar THEN Retorna
    ELSE IF ~NUMERO_LOJA THEN BlocoStatusCliente(p)
    ELSE IF p.forma = "idNumerico" THEN Rejeita
    ELSE Tenta("loja", "texto", "statusCliente")

\* The code that runs when the call resumes at chamada.pc.
Bloco ==
    LET p == chamada.pedido
    IN  CASE chamada.pc = "loja" -> BlocoLoja(p)
          [] chamada.pc = "tipo" -> BlocoTipo(p)
          [] chamada.pc = "lista" -> BlocoLista(p, cacheEntregadores)
          [] chamada.pc = "delay" -> [tipo |-> "dorme"]
          [] chamada.pc = "laco" -> BlocoLaco(chamada.lista, chamada.e)
          [] chamada.pc = "statusCliente" -> BlocoStatusCliente(p)
          [] OTHER -> Retorna

NovaChamada(fn, p) ==
    [fn |-> fn, pedido |-> p, pc |-> "inicio", espera |-> "nada",
     lista |-> << >>, e |-> 0]

\* The effect of a stretch of code on the call c and the log of send attempts
\* h (per attempt: the recipient, whether the connection was up at the call,
\* the calls of sock.sendMessage and what enviarMensagem returned); renova: the cache of couriers is older than
\* INTERVALO_CACHE_MS (index.js 95).
Executa(c, h, ef, renova) ==
    CASE ef.tipo = "rejeita" ->
           /\ chamada' = [c EXCEPT !.pc = "fim", !.espera = "fim"]
           /\ desfecho' = "rejeitado"
           /\ tentativasEnvio' = h
      [] ef.tipo = "retorna" ->
           /\ chamada' = [c EXCEPT !.pc = "fim", !.espera = "fim"]
           /\ desfecho' = "normal"
           /\ tentativasEnvio' = h
      [] ef.tipo = "obter" ->
           /\ chamada' = [c EXCEPT !.pc = "lista",
                                   !.espera = IF renova THEN "diretorio" ELSE "nada"]
           /\ desfecho' = "emCurso"
           /\ tentativasEnvio' = h
      [] ef.tipo = "dorme" ->
           /\ chamada' = [c EXCEPT !.pc = "laco", !.espera = "delay", !.e = @ + 1]
           /\ desfecho' = "emCurso"
           /\ tentativasEnvio' = h
      [] ef.tipo = "tenta" ->
           LET r == enviarMensagemInicio(ef.telefone)
               reg == [dest |-> ef.dest, conectado |-> Conectado,
                       transporte |-> IF r = "transporte" THEN 1 ELSE 0,
                       resultado |-> IF r = "transporte" THEN "pendente" ELSE r]
               c1 == IF ef.depois = "delay"
                     THEN [c EXCEPT !.e = ef.e,
                                    !.lista = IF c.pc = "lista"
                                              THEN cacheEntregadores ELSE @]
                     ELSE c
           IN  /\ tentativasEnvio' = Append(h, reg)
               /\ IF r = "lanca"
                  THEN /\ chamada' = [c1 EXCEPT !.pc = "fim", !.espera = "fim"]
                       /\ desfecho' = "rejeitado"
                  ELSE /\ chamada' =
                            [c1 EXCEPT !.pc = ef.depois,
                                       !.espera = IF r = "transporte"
                                                  THEN "transporte" ELSE "nada"]
                       /\ desfecho' = "emCurso"

Ociosa == chamada.espera = "fim"

\* A job of the microtask queue is pending: no event is served before it.
Microtarefa == ~Ociosa /\ chamada.espera = "nada"

\* POST /enviar (index.js 740-749): a telefone that is not falsy.
ChamaEnviar(telefone) ==
    /\ Ociosa
    /\ telefone \in Telefones \ {"ausente"}
    /\ Executa(NovaChamada("enviar", [telefone |-> telefone]), << >>,
               Tenta("destino", telefone, "retorna"), FALSE)
    /\ UNCHANGED <<connVars, lojaVars, pollVars, histVars, pixVars, cfgVars,
                   inativos, cacheCarregado>>

\* processarNovoPedido(pedido), up to its first await.
ChamaProcessarNovoPedido(p) ==
    /\ Ociosa
    /\ p \in Payloads
    /\ Executa(NovaChamada("novo", p), << >>, BlocoInicio(p), FALSE)
    /\ UNCHANGED <<connVars, lojaVars, pollVars, histVars, pixVars, cfgVars,
                   inativos, cacheCarregado>>

\* processarAtualizacaoStatus(pedido), up to its first await.
ChamaProcessarAtualizacaoStatus(p) ==
    /\ Ociosa
    /\ p \in Payloads
    /\ Executa(NovaChamada("status", p), << >>, BlocoStatus(p), FALSE)
    /\ UNCHANGED <<connVars, lojaVars, pollVars, histVars, pixVars, cfgVars,
                   inativos, cacheCarregado>>

\* The continuation of the call after a promise that was already settled.
Retoma(renova) ==
    /\ Microtarefa
    /\ Executa(chamada, tentativasEnvio, Bloco, renova)
    /\ UNCHANGED <<connVars, lojaVars, pollVars, histVars, pixVars, cfgVars,
                   inativos, cacheCarregado>>

\* sock.sendMessage settles (index.js 147-155): enviarMensagem returns true,
\* or false from its catch.
TransporteResponde(ok) ==
    /\ ~Ociosa
    /\ chamada.espera = "transporte"
    /\ tentativasEnvio' =
          [tentativasEnvio EXCEPT ![Len(tentativasEnvio)].resultado =
                                     IF ok THEN "true" ELSE "false"]
    /\ chamada' = [chamada EXCEPT !.espera = "nada"]
    /\ UNCHANGED desfecho
    /\ UNCHANGED <<connVars, lojaVars, pollVars, histVars, pixVars, cfgVars,
                   inativos, cacheCarregado>>

\* atualizarCacheEntregadores inside obterEntregadores (index.js 74-98).
DiretorioResponde(erro) ==
    /\ ~Ociosa
    /\ chamada.espera = "diretorio"
    /\ cacheEntregadores' = buscarEntregadoresAtivos(erro)
    /\ cacheCarregado' = TRUE
    /\ chamada' = [chamada EXCEPT !.espera = "nada"]
    /\ UNCHANGED <<tentativasEnvio, desfecho>>
    /\ UNCHANGED <<ultimoPedidoProcessado, pedidosProcessados, intervaloPolling,
                   pollAtivos, intervaloVerificacaoLoja, lojaFechadaPeloAdmin,
                   configs, ticks, despachos>>
    /\ UNCHANGED <<connVars, lojaVars, histVars, pixVars, cfgVars, inativos>>

\* The 500 ms timer of index.js 211 fires.
DelayFim ==
    /\ ~Ociosa
    /\ chamada.espera = "delay"
    /\ chamada' = [chamada EXCEPT !.espera = "nada"]
    /\ UNCHANGED <<tentativasEnvio, desfecho>>
    /\ UNCHANGED <<connVars, lojaVars, pollVars, histVars, pixVars, cfgVars,
                   inativos, cacheCarregado>>

NextDespacho ==
    \/ ~Microtarefa /\ ConexaoPasso(MaxSocksPoller, {"connectionLost"})
    \/ \E telefone \in Telefones : ChamaEnviar(telefone)
    \/ \E p \in Payloads : ChamaProcessarNovoPedido(p)
    \/ \E p \in Payloads : ChamaProcessarAtualizacaoStatus(p)
    \/ \E renova \in BOOLEAN : Retoma(renova)
    \/ \E ok \in BOOLEAN : TransporteResponde(ok)
    \/ \E erro \in BOOLEAN : DiretorioResponde(erro)
    \/ DelayFim

SpecDespacho == InitPoller /\ [][NextDespacho]_vars

(***************************************************************************)
(* The dispatch: send contract, isolation, fan-out, status gating.         *)
(***************************************************************************)

\* C11: every call of enviarMensagem returns true or false and never throws,
\* calls sock.sendMessage at most once, and returns false without calling it
\* when sock is null or statusConexao is not 'conectado'.
C11_ContratoEnvio ==
    \A i \in 1..Len(tentativasEnvio) :
        LET t == tentativasEnvio[i]
        IN  /\ t.resultado \in {"pendente", "true", "false"}
            /\ t.transporte <= 1
            /\ ~t.conectado => t.resultado = "false" /\ t.transporte = 0

Terminou(fn) == chamada.fn = fn /\ desfecho \in {"normal", "rejeitado"}

Falhou(i) == tentativasEnvio[i].resultado \in {"false", "lanca"}

\* A send attempt to dest comes after the i-th.
TentadoDepois(i, dest) ==
    \E j \in (i + 1)..Len(tentativasEnvio) : tentativasEnvio[j].dest = dest

\* C12: in processarNovoPedido a failed send to one recipient is still
\* followed by the send attempts to the remaining recipients: a failed
\* customer send by the store send, a failed courier send by the sends to the
\* couriers after it in the list.
C12_IsolamentoFalhas ==
    Terminou("novo") =>
        \A i \in 1..Len(tentativasEnvio) :
            Falhou(i) =>
                /\ tentativasEnvio[i].dest = "cliente" => TentadoDepois(i, "loja")
                /\ \A e \in 1..Len(chamada.lista) :
                      chamada.lista[e].nome = tentativasEnvio[i].dest =>
                          \A k \in (e + 1)..Len(chamada.lista) :
                              TentadoDepois(i, chamada.lista[k].nome)

\* C13: processarNovoPedido and processarAtualizacaoStatus complete normally
\* for every payload and every outcome of the transport and of the courier
\* directory, and send to no recipient twice.
C13_SemExcecao ==
    chamada.fn \in {"novo", "status"} =>
        /\ desfecho # "rejeitado"
        /\ \A i, j \in 1..Len(tentativasEnvio) :
              tentativasEnvio[i].dest = tentativasEnvio[j].dest => i = j

Destinos == [i \in 1..Len(tentativasEnvio) |-> tentativasEnvio[i].dest]

Nomes(lista) == [i \in 1..Len(lista) |-> lista[i].nome]

\* The fan-out of a new order as the claim C14 gives it.
LequeEsperado(p, lista) ==
    (IF p.telefone # "ausente" THEN <<"cliente">> ELSE << >>)
    \o <<"loja">>
    \o (IF p.entrega THEN Nomes(ComTelefone(lista)) ELSE << >>)

\* C14: the send attempts of processarNovoPedido are, in this order and no
\* others: the customer iff a customer phone is present, the store, and, iff
\* the order is a delivery, each courier of the list that has a phone.
C14_Leque ==
    Terminou("novo") => Destinos = LequeEsperado(chamada.pedido, chamada.lista)

\* The send attempts of a status change as the claim C15 gives them.
StatusEsperado(p) ==
    IF p.status \notin statusNotificar THEN << >>
    ELSE IF p.status \in {"ready", "pronto"} /\ p.telefone # "ausente"
         THEN <<"loja", "cliente">>
         ELSE <<"loja">>

\* C15: processarAtualizacaoStatus makes no send attempt for a status outside
\* the notify-worthy set, the store's then the customer's for ready/pronto
\* with a customer phone, and the store's alone otherwise.
C15_PortaoStatus ==
    Terminou("status") => Destinos = StatusEsperado(chamada.pedido)

(***************************************************************************)
(* The PIX key selector (lib/pix.js).                                      *)
(***************************************************************************)

Digitos == {"0", "1", "2", "3", "4", "5", "6", "7", "8", "9"}

EhDigito(c) == c \in Digitos

\* normalizarNumero: String(numero || '').replace(/\D/g, '').
normalizarNumero(numero) == SelectSeq(numero, EhDigito)

\* Map.get and Map.set on the entries in insertion order; set on a key that
\* is present keeps its place.
Obter(mapa, n) ==
    IF \E i \in 1..Len(mapa) : mapa[i].numero = n
    THEN LET i == CHOOSE j \in 1..Len(mapa) : mapa[j].numero = n
         IN  [indice |-> mapa[i].indice, timestamp |-> mapa[i].timestamp]
    ELSE Nenhum

Definir(mapa, n, v) ==
    LET e == [numero |-> n, indice |-> v.indice, timestamp |-> v.timestamp]
    IN  IF \E i \in 1..Len(mapa) : mapa[i].numero = n
        THEN [i \in 1..Len(mapa) |-> IF mapa[i].numero = n THEN e ELSE mapa[i]]
        ELSE Append(mapa, e)

\* The place of the oldest entry, the first of them in insertion order (the
\* sort of line 43 is stable).
MaisAntigo(mapa) ==
    CHOOSE i \in 1..Len(mapa) :
        \A j \in 1..Len(mapa) :
            \/ mapa[i].timestamp < mapa[j].timestamp
            \/ mapa[i].timestamp = mapa[j].timestamp /\ i <= j

RECURSIVE SemMaisAntigos(_, _)
SemMaisAntigos(mapa, excedente) ==
    IF excedente <= 0 THEN mapa
    ELSE SemMaisAntigos(Remove(mapa, MaisAntigo(mapa)), excedente - 1)

\* limparHistoricoAntigo (lines 32-50) at time t.
limparHistoricoAntigo(mapa, t) ==
    LET Retida(e) == ~(e.timestamp = 0 \/ t - e.timestamp > RETENCAO_HISTORICO_MS)
        retidas == SelectSeq(mapa, Retida)
    IN  IF Len(retidas) <= LIMITE_HISTORICO THEN retidas
        ELSE SemMaisAntigos(retidas, Len(retidas) - LIMITE_HISTORICO)

\* The requester's last key is inside the block window (lines 65-70).
Bloqueia(ultimoEnvio, t) ==
    /\ Len(CHAVES_PIX) > 1
    /\ ultimoEnvio # Nenhum
    /\ t - ultimoEnvio.timestamp < INTERVALO_BLOQUEIO_REPETICAO_MS

\* A filter that takes every key away from a requester inside the window.
TiraTodos(ultimoEnvio, t) == IF Bloqueia(ultimoEnvio, t) THEN {} ELSE Indices

\* indicesCandidatos (lines 63-76).
Candidatos(ultimoEnvio, t) ==
    LET filtrados == IF Bloqueia(ultimoEnvio, t)
                     THEN Indices \ {ultimoEnvio.indice} ELSE Indices
    IN  IF filtrados = {} THEN Indices ELSE filtrados

\* The draw among all the candidates, whatever their use.
SemBalanceio(candidatos, uso) == candidatos

\* The draw among the candidates of greatest use.
MaisUsados(candidatos, uso) ==
    {i \in candidatos : \A j \in candidatos : uso[i] >= uso[j]}

\* indicesBalanceados (lines 78-80): the candidates of least use.
Balanceados(candidatos, uso) ==
    {i \in candidatos : \A j \in candidatos : uso[i] <= uso[j]}

\* grupoSorteio (lines 57-80) for a requester at this moment: the candidates
\* of least use, or all the candidates if none has it.
grupoSorteio(numeroRemetente) ==
    LET mapa == limparHistoricoAntigo(ultimoEnvioPorNumero, agora)
        numeroNormalizado == normalizarNumero(numeroRemetente)
        ultimoEnvio == IF numeroNormalizado # << >>
                       THEN Obter(mapa, numeroNormalizado) ELSE Nenhum
        candidatos == Candidatos(ultimoEnvio, agora)
        balanceados == Balanceados(candidatos, usoPorIndice)
    IN  IF balanceados # {} THEN balanceados ELSE candidatos

\* selecionarChavePixInteligente(numeroRemetente); sorteado: the index that
\* Math.random() picks in grupoSorteio.
SelecaoPix(numeroRemetente, sorteado) ==
    LET mapa == limparHistoricoAntigo(ultimoEnvioPorNumero, agora)
        numeroNormalizado == normalizarNumero(numeroRemetente)
        ultimoEnvio == IF numeroNormalizado # << >>
                       THEN Obter(mapa, numeroNormalizado) ELSE Nenhum
        candidatos == Candidatos(ultimoEnvio, agora)
    IN  /\ numeroRemetente \in Remetentes
        /\ sorteado \in grupoSorteio(numeroRemetente)
        /\ usoPorIndice' = [usoPorIndice EXCEPT ![sorteado] = @ + 1]
        /\ ultimoEnvioPorNumero' =
              IF numeroNormalizado # << >>
              THEN Definir(mapa, numeroNormalizado,
                           [indice |-> sorteado, timestamp |-> agora])
              ELSE mapa
        /\ entregas' = [entregas EXCEPT ![numeroRemetente] =
                           [indice |-> sorteado, timestamp |-> agora]]
        /\ ultimaSelecao' = [quem |-> numeroRemetente, indice |-> sorteado,
                             quando |-> agora, antes |-> entregas[numeroRemetente],
                             candidatos |-> candidatos]
        /\ semConflito' = (semConflito /\ ~Bloqueia(ultimoEnvio, agora))
        /\ UNCHANGED agora

\* A call of selecionarChavePixInteligente on its own.
selecionarChavePixInteligente(numeroRemetente, sorteado) ==
    /\ SelecaoPix(numeroRemetente, sorteado)
    /\ UNCHANGED respVars
    /\ UNCHANGED <<connVars, lojaVars, pollVars, histVars, despVars, cfgVars>>

\* Time passes between two messages, half a block window at a time.
Passos == {INTERVALO_BLOQUEIO_REPETICAO_MS \div 2}

PassaTempo(d) ==
    /\ d \in Passos
    /\ agora' = agora + d
    /\ UNCHANGED <<usoPorIndice, ultimoEnvioPorNumero, entregas, ultimaSelecao,
                   semConflito, respVars>>
    /\ UNCHANGED <<connVars, lojaVars, pollVars, histVars, despVars, cfgVars>>

Selecoes == usoPorIndice[0] + usoPorIndice[1]

NextPix ==
    \/ \E r \in Remetentes, i \in Indices :
          Selecoes < MaxSelecoes /\ selecionarChavePixInteligente(r, i)
    \/ \E d \in Passos : agora + d <= MaxHoras * HORA_MS /\ PassaTempo(d)

SpecPix == InitPoller /\ [][NextPix]_vars

(***************************************************************************)
(* The PIX key selector: anti-repetition and rotation.                     *)
(***************************************************************************)

\* C16: a requester's selection less than 6 hours after the same requester's
\* previous one never returns the same key, whatever the other requesters
\* selected in between; from 6 hours on the previous key is a candidate again.
C16_AntiRepeticao ==
    ultimaSelecao # Nenhum /\ ultimaSelecao.antes # Nenhum =>
        LET passou == ultimaSelecao.quando - ultimaSelecao.antes.timestamp
        IN  /\ passou < INTERVALO_BLOQUEIO_REPETICAO_MS
                  => ultimaSelecao.indice # ultimaSelecao.antes.indice
            /\ passou >= INTERVALO_BLOQUEIO_REPETICAO_MS
                  => ultimaSelecao.antes.indice \in ultimaSelecao.candidatos

Diferenca(a, b) == IF a >= b THEN a - b ELSE b - a

\* C17: as long as no selection found its requester inside the block window,
\* the use counts of the two keys differ by at most 1 after every selection.
C17_Rotacao ==
    semConflito => Diferenca(usoPorIndice[0], usoPorIndice[1]) <= 1

\* Three selections by three requesters, none inside a block window.
C17_Witness ==
    /\ semConflito
    /\ Selecoes >= 3
    /\ Cardinality({r \in Remetentes : entregas[r] # Nenhum}) >= 3

(***************************************************************************)
(* The poller and the store's availability.                                *)
(***************************************************************************)

\* A run of verificarNovosPedidos that found the store closed.
TickFechado ==
    lojaFechadaPeloAdmin /\ ultimoTick # "fechado" /\ ultimoTick' = "fechado"

\* An order created while the store was held closed, which no fetch returned
\* so far, with no run in flight to fetch it.
AguardaReabertura(id) ==
    /\ Criado(id)
    /\ orders[id].comLojaFechada
    /\ retornos[id] = 0
    /\ ticks = << >>

\* C18: a run of verificarNovosPedidos that finds the store closed fetches
\* nothing, dispatches nothing and leaves ultimoPedidoProcessado and
\* pedidosProcessados as they are, and the orders created while closed stay
\* ahead of the cursor, for the first run after reopening to fetch.
C18_TickFechado ==
    [][ /\ TickFechado =>
              UNCHANGED <<ultimoPedidoProcessado, pedidosProcessados, ticks,
                          despachos, retornos, invocacoes>>
        /\ \A id \in Ids :
              AguardaReabertura(id)' =>
                  orders'[id].created_at > ultimoPedidoProcessado'
      ]_vars

(***************************************************************************)
(* The store's availability: the settings cache of the automatic replies   *)
(* (lib/respostasAutomaticas.js) next to verificarStatusLoja.              *)
(***************************************************************************)

INTERVALO_CACHE_CONFIG_MS == 300000

\* config.manual_status of the settings object built at lines 325-328: the
\* value of the row, undefined without it.
ValorManual(override) == IF override = "semLinha" THEN "undefined" ELSE override

\* {}: the settings object with no key.
SemConfig == "undefined"

\* The cache test of carregarConfiguracoesLoja (line 311).
CacheValido ==
    /\ configuracoesLoja # "null"
    /\ ultimaAtualizacaoConfig # Nulo
    /\ agora - ultimaAtualizacaoConfig < INTERVALO_CACHE_CONFIG_MS

\* What carregarConfiguracoesLoja returns (lines 308-336); erro: the read of
\* store_settings failed.
ConfigCarregada(erro) ==
    IF CacheValido THEN configuracoesLoja
    ELSE IF erro
         THEN IF configuracoesLoja # "null" THEN configuracoesLoja ELSE SemConfig
         ELSE ValorManual(manual_status)

\* The answer of verificarLojaAbertaSupabase for a manual_status (lines
\* 488-499): the admin's word, else estaNoHorario().
LojaAbertaPara(manual, horario) ==
    IF manual = "closed" THEN FALSE
    ELSE IF manual = "open" THEN TRUE
    ELSE horario

\* verificarLojaAbertaSupabase(), with the carregarConfiguracoesLoja it
\* awaits; lojaAberta holds its last answer.
LojaAbertaLida(erro) ==
    /\ IF CacheValido \/ erro
       THEN UNCHANGED <<configuracoesLoja, ultimaAtualizacaoConfig>>
       ELSE /\ configuracoesLoja' = ValorManual(manual_status)
            /\ ultimaAtualizacaoConfig' = agora
    /\ lojaAberta' = <<LojaAbertaPara(ConfigCarregada(erro), noHorario)>>
    /\ UNCHANGED <<manual_status, noHorario, supabaseFora>>

\* A call of verificarLojaAbertaSupabase on its own.
verificarLojaAbertaSupabase(erro) ==
    /\ LojaAbertaLida(erro)
    /\ UNCHANGED <<connVars, lojaVars, pollVars, histVars, despVars, pixVars>>

\* The admin sets manual_status.
AdminDefine(override) ==
    /\ override \in Overrides
    /\ manual_status' = override
    /\ UNCHANGED <<noHorario, configuracoesLoja, ultimaAtualizacaoConfig,
                   lojaAberta, supabaseFora>>
    /\ UNCHANGED <<connVars, lojaVars, pollVars, histVars, despVars, pixVars>>

\* The configuration of the poller, with the reads of manual_status
\* answered from the store.
ConfigLojaPasso ==
    \/ \E c \in 1..Len(configs), erro \in BOOLEAN :
          ConfigCache(c, Entregadores, erro)
    \/ \E c \in 1..Len(configs) : ConfigSemente(c)
    \/ \E c \in 1..Len(configs) : ConfigLoja(c, manual_status)
    \/ TimerVerificarStatusLoja(manual_status)

\* Every read succeeds; the override and the hour stay as they started.
NextLoja ==
    \/ ConexaoPasso(MaxSocksSerial, {"connectionLost"})
    \/ ConfigLojaPasso
    \/ verificarLojaAbertaSupabase(FALSE)

InitLoja ==
    \E override \in Overrides, horario \in BOOLEAN :
        InitCom(override, horario) /\ USAR_SUPABASE_AUTH /\ credenciais

SpecLoja == InitLoja /\ [][NextLoja]_vars

\* isOpen as the specification gives it.
AbertaEsperada(override, horario) ==
    CASE override = "closed" -> FALSE
      [] override = "open" -> TRUE
      [] OTHER -> horario

\* verificarStatusLoja has read the override: configurarPollingPedidos ran
\* to its end.
PortaoLido == intervaloVerificacaoLoja /\ configs = << >>

\* C19: the value that gates the poller is isOpen of the override and the
\* schedule (closed for 'closed', open for 'open', the schedule's answer for
\* an override that is not set), and agrees with verificarLojaAbertaSupabase.
C19_Disponibilidade ==
    PortaoLido =>
        /\ ~lojaFechadaPeloAdmin = AbertaEsperada(manual_status, noHorario)
        /\ lojaAberta # << >> => ~lojaFechadaPeloAdmin = lojaAberta[1]

(***************************************************************************)
(* Supabase out of reach: every read made meanwhile fails.                 *)
(***************************************************************************)

\* Supabase goes out of reach, or comes back.
SupabaseMuda ==
    /\ supabaseFora' = ~supabaseFora
    /\ UNCHANGED <<manual_status, noHorario, configuracoesLoja,
                   ultimaAtualizacaoConfig, lojaAberta>>
    /\ UNCHANGED <<connVars, lojaVars, pollVars, histVars, despVars, pixVars>>

\* What verificarStatusLoja reads now.
LeituraAgora == IF supabaseFora THEN "erro" ELSE manual_status

\* The poller, one run at a time, and the automatic replies' availability
\* check, all reading the same Supabase.
NextFalha ==
    \/ ConexaoPasso(MaxSocksPoller, {"connectionLost"})
    \/ \E tipo \in TiposPedido : Len(orders) < MaxPedidos /\ NovoPedido(tipo, FALSE)
    \/ \E c \in 1..Len(configs) : ConfigCache(c, Entregadores, supabaseFora)
    \/ \E c \in 1..Len(configs) : ConfigSemente(c)
    \/ \E c \in 1..Len(configs) : ConfigLoja(c, LeituraAgora)
    \/ TimerVerificarStatusLoja(LeituraAgora)
    \/ Len(ticks) < 1 /\ TimerVerificarNovosPedidos
    \/ \E k \in 1..Len(ticks) : TickFetch(k, supabaseFora)
    \/ \E k \in 1..Len(ticks) : TickLaco(k)
    \/ \E k \in 1..Len(ticks) : TickRetoma(k)
    \/ \E d \in 1..Len(despachos) : DespachoEnvia(d)
    \/ \E d \in 1..Len(despachos) : DespachoEntregadores(d, FALSE, Entregadores)
    \/ verificarLojaAbertaSupabase(supabaseFora)
    \/ \E override \in {"open", "closed"} : AdminDefine(override)
    \/ \E d \in Passos : agora + d <= MaxHorasFalha * HORA_MS /\ PassaTempo(d)
    \/ SupabaseMuda

SpecFalha == InitPoller /\ [][NextFalha]_vars

\* The query of a run of verificarNovosPedidos has just failed.
FetchFalhou == ultimoTick' = "erro" /\ ticks' # ticks

\* The verificarStatusLoja that ends configurarPollingPedidos has just returned.
ConfigLojaTerminou ==
    \E c \in 1..Len(configs) : configs[c].pc = "loja" /\ configs' = Remove(configs, c)

\* C20: a read that fails keeps what was cached.  A run whose fetch of the
\* orders fails ends without a dispatch and leaves ultimoPedidoProcessado and
\* pedidosProcessados alone; while the reads of the settings fail,
\* lojaFechadaPeloAdmin and configuracoesLoja keep their values; and the read
\* is made again at the next interval or call: the intervals stay set and the
\* settings cache is not marked fresh.
C20_FalhaLeitura ==
    [][ /\ FetchFalhou =>
              /\ Len(ticks') < Len(ticks)
              /\ UNCHANGED <<ultimoPedidoProcessado, pedidosProcessados,
                             despachos, invocacoes, intervaloPolling, pollAtivos>>
        /\ supabaseFora =>
              /\ lojaFechadaPeloAdmin' = lojaFechadaPeloAdmin
              /\ UNCHANGED <<configuracoesLoja, ultimaAtualizacaoConfig>>
              /\ ~CacheValido => ~CacheValido'
        /\ (supabaseFora /\ ConfigLojaTerminou) => intervaloVerificacaoLoja'
      ]_vars

\* Supabase is out of reach; the last run of verificarNovosPedidos failed
\* with an order waiting past the cursor, the gate still holds the 'closed'
\* it read before the admin reopened the store, and the availability check
\* answered from settings that went stale.
C20_Witness ==
    /\ supabaseFora
    /\ ultimoTick = "erro"
    /\ \E id \in 1..Len(orders) : orders[id].created_at > ultimoPedidoProcessado
    /\ lojaFechadaPeloAdmin
    /\ manual_status = "open"
    /\ configuracoesLoja = "closed"
    /\ ~CacheValido
    /\ lojaAberta = <<FALSE>>

(***************************************************************************)
(* Claims on the poller's handling of the orders it fetched.               *)
(***************************************************************************)

\* processarNovoPedido has just been called for the order.
Invocado(id) == invocacoes'[id] # invocacoes[id]

\* C21: an order with malformed fields is dispatched all the same.  The call
\* of processarNovoPedido made for an order gets to its sends (the customer's,
\* then the store's), and the run that made it waits for it, to mark the order
\* and move the cursor past it afterwards.
C21_MalformadoDespachado ==
    [][ \A id \in Ids :
          Invocado(id) =>
              /\ \E d \in 1..Len(despachos') : despachos'[d].id = id
              /\ \E k \in 1..Len(ticks') :
                    /\ ticks'[k].pc = "aguarda"
                    /\ ticks'[k].lote[ticks'[k].i] = id
      ]_vars

(***************************************************************************)
(* pedidosProcessados on its own: the add and the trim of index.js 377-384 *)
(* applied to one id after another, past MAX_PEDIDOS_CACHE.                *)
(***************************************************************************)

\* The id the store issues next: one more than every id added so far.
ProximoId ==
    LET ids == Range(insercoes) \cup {0}
    IN  1 + CHOOSE m \in ids : \A x \in ids : x <= m

\* The ids a run may come to mark: a new one, the first ever issued (dropped
\* from the Set by then, or not), and the one marked last.
IdsMarcados ==
    {ProximoId} \cup (IF insercoes = << >> THEN {} ELSE {1, insercoes[Len(insercoes)]})

\* Lines 377-384 for one order id.
Marca(id) ==
    /\ id \in IdsMarcados
    /\ pedidosProcessados' = MarcaProcessado(pedidosProcessados, id)
    /\ insercoes' = Inserido(insercoes, pedidosProcessados, id)
    /\ UNCHANGED <<ultimoPedidoProcessado, intervaloPolling, pollAtivos,
                   intervaloVerificacaoLoja, lojaFechadaPeloAdmin,
                   cacheEntregadores, configs, ticks, despachos>>
    /\ UNCHANGED <<invocacoes, retornos, semente, enviosRodada, transportes,
                   ultimoTick>>
    /\ UNCHANGED <<outrosVars, connVars, lojaVars>>

NextCache ==
    \E id \in IdsMarcados :
        Len(insercoes) < MAX_PEDIDOS_CACHE + MaxExcedente /\ Marca(id)

SpecCache == InitPoller /\ [][NextCache]_vars

\* The last n elements of a sequence.
Ultimos(s, n) == IF Len(s) <= n THEN s ELSE SubSeq(s, Len(s) - n + 1, Len(s))

\* C22: pedidosProcessados holds at most MAX_PEDIDOS_CACHE ids, all distinct,
\* and they are the MAX_PEDIDOS_CACHE ids added last, in the order they were
\* added: what a trim removes is the oldest.
C22_LimiteCache ==
    /\ Len(pedidosProcessados) <= MAX_PEDIDOS_CACHE
    /\ pedidosProcessados = Ultimos(insercoes, MAX_PEDIDOS_CACHE)
    /\ \A i, j \in 1..Len(pedidosProcessados) :
          pedidosProcessados[i] = pedidosProcessados[j] => i = j

\* The cap was passed, and an id that had been dropped was added again.
C22_Witness ==
    /\ Len(insercoes) > MAX_PEDIDOS_CACHE + 1
    /\ Len(pedidosProcessados) = MAX_PEDIDOS_CACHE
    /\ pedidosProcessados[Len(pedidosProcessados)] = 1

(***************************************************************************)
(* The poller next to an admin panel that confirms the orders.             *)
(***************************************************************************)

NextStatus ==
    \/ ConexaoPasso(MaxSocksPoller, {"connectionLost"})
    \/ PollerPasso(1)
    \/ \E id \in Ids : MudaStatus(id, "confirmed")

SpecStatus == InitPoller /\ [][NextStatus]_vars

FairSpecStatus == SpecStatus /\ Vivacidade

\* An order the poller took in stands in a status worth a notification.
StatusMudou(id) ==
    /\ id \in 1..Len(orders)
    /\ id \in Range(pedidosProcessados)
    /\ orders[id].status \in statusNotificar

\* C23: once an order already taken in moves to a status worth a
\* notification, processarAtualizacaoStatus is eventually called.
C23_StatusEmitido ==
    \A id \in Ids : StatusMudou(id) ~> (chamada.fn = "status")

\* The run at ticks[k] stands in its loop before an order whose id is in
\* pedidosProcessados, and takes its step.
Salta(k) ==
    /\ ticks[k].pc = "laco"
    /\ ticks[k].lote[ticks[k].i] \in Range(pedidosProcessados)
    /\ ticks[k] \notin Range(ticks')

\* C24: a fetched order whose id is already in pedidosProcessados is skipped:
\* the cursor is set to its created_at, processarNovoPedido is not called and
\* nothing is sent, pedidosProcessados stays as it is, and the run goes on
\* with the next order of its batch, or ends after the last.
C24_SaltoIdempotente ==
    [][ \A k \in 1..Len(ticks) :
          Salta(k) =>
              LET t == ticks[k]
              IN  /\ ultimoPedidoProcessado' = orders[t.lote[t.i]].created_at
                  /\ UNCHANGED <<pedidosProcessados, despachos, invocacoes, insercoes>>
                  /\ enviosRodada'[t.rodada] \in {enviosRodada[t.rodada], << >>}
                  /\ IF t.i < Len(t.lote)
                     THEN [t EXCEPT !.i = t.i + 1] \in Range(ticks')
                     ELSE \A u \in Range(ticks') : u.rodada # t.rodada
      ]_vars

\* Two runs fetched the same batch and both are past its first order, for
\* which processarNovoPedido was called once: one of them skipped it.
C24_Witness ==
    \E k, j \in 1..Len(ticks) :
        /\ k # j
        /\ ticks[k].i = 2
        /\ ticks[j].i = 2
        /\ ticks[k].lote[1] = ticks[j].lote[1]
        /\ ticks[k].lote[1] \in Range(pedidosProcessados)
        /\ invocacoes[ticks[k].lote[1]] = 1

(***************************************************************************)
(* The connection manager: backoff, attempt cap, fallback, authentication, *)
(* pairing, reconnect timers.                                              *)
(***************************************************************************)

\* A 'close' event of socket s takes the backoff branch.
FechaComRecuo(s) ==
    \E code \in StatusCodes : EventoClose(s, code) /\ RamoClose(code) = "backoff"

\* tentativasReconexao as the backoff branch leaves it: one more, or 0 past
\* the cap.
TentativasApos ==
    IF tentativasReconexao + 1 > MAX_TENTATIVAS_RECONEXAO
    THEN 0
    ELSE tentativasReconexao + 1

\* C25 (as stated): a closure of the backoff branch increments
\* tentativasReconexao and schedules the reconnect after
\* DELAY_BASE_RECONEXAO_MS * 2^tentativasReconexao, with the incremented value.
C25_FormulaRecuo ==
    [][ \A s \in 1..Len(socks) :
          FechaComRecuo(s) =>
              timers' = Append(timers,
                               DELAY_BASE_RECONEXAO_MS * Pow2(tentativasReconexao + 1))
      ]_vars

\* C25 (amended): the exponent is one less than the value the handler leaves
\* in tentativasReconexao: the base for the first closure, doubled by each
\* one after it, and half the base when the cap has just reset the count to 0.
C25_FormulaRecuoCodigo ==
    [][ \A s \in 1..Len(socks) :
          FechaComRecuo(s) =>
              /\ tentativasReconexao' = TentativasApos
              /\ timers' = Append(timers,
                                  IF TentativasApos = 0
                                  THEN DELAY_BASE_RECONEXAO_MS \div 2
                                  ELSE DELAY_BASE_RECONEXAO_MS * Pow2(TentativasApos - 1))
      ]_vars

\* Closures of the backoff branch have followed one another up to the cap and
\* past it: the last one reset the count and set its timer.
C25_Witness ==
    /\ tentativasReconexao = 0
    /\ statusConexao = "desconectado"
    /\ \E j \in 1..Len(timers) : timers[j] = DELAY_BASE_RECONEXAO_MS \div 2
    /\ \E j \in 1..Len(timers) :
          timers[j] = DELAY_BASE_RECONEXAO_MS * Pow2(MAX_TENTATIVAS_RECONEXAO - 1)

\* C26: tentativasReconexao stays within 0..MAX_TENTATIVAS_RECONEXAO between
\* handlers, and the closure of the backoff branch that would take it past the
\* cap resets it and contadorQrCodes to 0 and still sets one timer for
\* iniciarConexaoWhatsApp.
C26_TetoTentativas ==
    [][ /\ tentativasReconexao \in 0..MAX_TENTATIVAS_RECONEXAO
        /\ tentativasReconexao' \in 0..MAX_TENTATIVAS_RECONEXAO
        /\ \A s \in 1..Len(socks) :
              (FechaComRecuo(s) /\ tentativasReconexao = MAX_TENTATIVAS_RECONEXAO)
              => /\ tentativasReconexao' = 0
                 /\ contadorQrCodes' = 0
                 /\ Len(timers') = Len(timers) + 1
      ]_vars

\* The count stood at the cap and one more closure of the backoff branch
\* came: both counters are 0 and the reconnect is pending.
C26_Witness ==
    /\ tentativasReconexao = 0
    /\ contadorQrCodes = 0
    /\ estaAutenticado
    /\ sock # 0 /\ socks[sock].estado = "fechado"
    /\ timers # << >>
    /\ timers[Len(timers)] = DELAY_BASE_RECONEXAO_MS \div 2

\* A closure for the fallback: no forced logout, no transient code, not while
\* authenticated, and after a pairing challenge was issued.
ParaFallback(code) ==
    /\ code # "loggedOut"
    /\ code \notin Transitorios
    /\ ~estaAutenticado
    /\ contadorQrCodes > 0

\* C27: a 'close' that is no forced logout, not transient, not while
\* authenticated and not the initial handshake sets a timer for
\* iniciarConexaoWhatsApp with the fixed delay of 5 s.
C27_RetentaFallback ==
    [][ \A s \in 1..Len(socks), code \in StatusCodes :
          (EventoClose(s, code) /\ ParaFallback(code))
          => timers' = Append(timers, DELAY_FALLBACK_MS)
      ]_vars

\* estaAutenticado goes from true to false.
PerdeAutenticacao == estaAutenticado /\ ~estaAutenticado'

NextPareamento ==
    \/ ConexaoPasso(MaxSocksSerial, StatusCodes)
    \/ \E apagou \in BOOLEAN : LimparSessaoFim(apagou)
    \/ \E s \in 1..Len(socks) : contadorQrCodes < MaxQr /\ EventoQr(s)
    \/ \E s \in 1..Len(socks) : EventoCredsUpdate(s)
    \/ nReconectar < MaxReconectar /\ PostReconectar
    \/ PostDesconectar

SpecPareamento == Init /\ [][NextPareamento]_vars

\* C29: a qr event adds exactly 1 to contadorQrCodes and moves statusConexao
\* to 'aguardando_qr'; and qrCodeAtual is held only while statusConexao is
\* 'aguardando_qr', never while it is 'conectado' or 'desconectado'.
C29_Pareamento ==
    [][ /\ \A s \in 1..Len(socks) :
              EventoQr(s) =>
                  /\ contadorQrCodes' = contadorQrCodes + 1
                  /\ statusConexao' = "aguardando_qr"
        /\ qrCodeAtual => statusConexao = "aguardando_qr"
        /\ qrCodeAtual' => statusConexao' = "aguardando_qr"
      ]_vars

\* The current socket is open and the manager reports 'conectado'.
SessaoConectada ==
    /\ sock # 0
    /\ socks[sock].estado = "aberto"
    /\ statusConexao = "conectado"

\* C30: a pending reconnect timer never starts iniciarConexaoWhatsApp over a
\* session that has reached 'conectado': no timer step ends an open current
\* socket.
C30_TimerInvalidado ==
    [][ \A j \in 1..Len(timers) :
            TimerIniciarConexao(j) => ~SessaoConectada ]_vars

\* The four fields of the connection state.
estadoConexao ==
    <<statusConexao, contadorQrCodes, tentativasReconexao, estaAutenticado>>

\* A step that runs the handler of a transport event: a qr, open or close
\* event of some socket, or the 'close' that sock.end() emits to the
\* listeners of a live socket inside a route.
PassoDeEvento ==
    \/ \E s \in 1..Len(socks) : EventoQr(s) \/ EventoOpen(s)
    \/ \E s \in 1..Len(socks), code \in StatusCodes : EventoClose(s, code)
    \/ /\ sock # 0 /\ Vivo(sock) /\ socks[sock].ouvintes
       /\ PostReconectar \/ PostDesconectar

\* C31: statusConexao, contadorQrCodes, tentativasReconexao and
\* estaAutenticado change only in a step that runs the handler of a qr, open
\* or close event; every other step leaves the four unchanged.
C31_DonoDoEstado ==
    [][ estadoConexao' # estadoConexao => PassoDeEvento ]_vars

(***************************************************************************)
(* The PIX key selector: what a selection returns and what it leaves.      *)
(***************************************************************************)

\* C32: in every state and for every requester id (with a sign, without a
\* digit, empty) the group the key is drawn from is a non-empty set of
\* indices of CHAVES_PIX, so selecionarChavePixInteligente returns a key.
C32_SelecaoNuncaFalha ==
    \A r \in Remetentes :
        /\ grupoSorteio(r) # {}
        /\ grupoSorteio(r) \subseteq Indices

\* The id without a digit and the empty id were served, and the last
\* selection had the requester's previous key filtered out.
C32_Witness ==
    /\ ultimaSelecao # Nenhum
    /\ Cardinality(ultimaSelecao.candidatos) = 1
    /\ entregas[<< >>] # Nenhum
    /\ \E r \in Remetentes : normalizarNumero(r) # << >> /\ entregas[r] # Nenhum

\* C33: the key a selection returns has, before its increment, the least
\* count of use among the candidates left after the anti-repetition filter;
\* a candidate of strictly greater count is never returned.
C33_MenosUsadaPrimeiro ==
    [][ \A r \in Remetentes, i \in Indices :
            selecionarChavePixInteligente(r, i) =>
                \A j \in ultimaSelecao'.candidatos :
                    usoPorIndice[i] <= usoPorIndice[j] ]_vars

\* The last selection had both keys as candidates and their counts differed
\* before it.
C33_Witness ==
    /\ ultimaSelecao # Nenhum
    /\ ultimaSelecao.candidatos = Indices
    /\ \E j \in Indices :
          /\ j # ultimaSelecao.indice
          /\ usoPorIndice[ultimaSelecao.indice] - 1 # usoPorIndice[j]

(***************************************************************************)
(* The PIX key selector with a full history: LIMITE_HISTORICO requesters   *)
(* were served during the last two seconds, one per millisecond, the keys  *)
(* in turn.                                                                *)
(***************************************************************************)

Algarismos == <<"0", "1", "2", "3", "4", "5", "6", "7", "8", "9">>

\* The number k written with four digits.
QuatroDigitos(k) ==
    << Algarismos[((k \div 1000) % 10) + 1], Algarismos[((k \div 100) % 10) + 1],
       Algarismos[((k \div 10) % 10) + 1], Algarismos[(k % 10) + 1] >>

HistoricoCheio ==
    [k \in 1..LIMITE_HISTORICO |->
        [numero |-> QuatroDigitos(k), indice |-> k % 2,
         timestamp |-> HORA_MS - (LIMITE_HISTORICO - k)]]

InitHistorico ==
    /\ InitHist("open", TRUE, HistoricoCheio,
                [i \in Indices |-> LIMITE_HISTORICO \div 2])
    /\ USAR_SUPABASE_AUTH
    /\ credenciais

NextHistorico ==
    \/ \E r \in Remetentes, i \in Indices :
          /\ Selecoes < LIMITE_HISTORICO + MaxSelecoesHist
          /\ selecionarChavePixInteligente(r, i)
    \/ \E d \in Passos : agora + d <= MaxHoras * HORA_MS /\ PassaTempo(d)

SpecHistorico == InitHistorico /\ [][NextHistorico]_vars

\* The entries of the history that the retention sweep of a call keeps,
\* before the cut to the limit.
Retidas == 
    SelectSeq(ultimoEnvioPorNumero,
              LAMBDA e : ~(e.timestamp = 0
                           \/ agora - e.timestamp > RETENCAO_HISTORICO_MS))

Numeros(mapa) == {mapa[i].numero : i \in 1..Len(mapa)}

\* C34: after every selection the history holds at most LIMITE_HISTORICO
\* entries, none older than the retention window as of that call, and every
\* entry the call evicted for size was no newer than every entry it kept.
C34_HistoricoLimitado ==
    [][ \A r \in Remetentes, i \in Indices :
            selecionarChavePixInteligente(r, i) =>
                LET depois == ultimoEnvioPorNumero'
                    retidas == Retidas
                    numeros == Numeros(depois)
                    saidas == {k \in 1..Len(retidas) :
                                  retidas[k].numero \notin numeros}
                IN  /\ Len(depois) <= LIMITE_HISTORICO
                    /\ \A k \in 1..Len(depois) :
                          agora - depois[k].timestamp <= RETENCAO_HISTORICO_MS
                    /\ \A k \in saidas, m \in 1..Len(depois) :
                          retidas[k].timestamp <= depois[m].timestamp ]_vars

\* C35: a selection adds exactly 1 to the count of use of the key it
\* returns and leaves the other counts alone, and it leaves the returned
\* index with the time of the call in the history under the requester's id
\* reduced to its digits.
C35_EfeitoSelecao ==
    [][ \A r \in Remetentes, i \in Indices :
            selecionarChavePixInteligente(r, i) =>
                /\ usoPorIndice' =
                      [j \in Indices |->
                          IF j = i THEN usoPorIndice[j] + 1 ELSE usoPorIndice[j]]
                /\ Obter(ultimoEnvioPorNumero', normalizarNumero(r))
                      = [indice |-> i, timestamp |-> agora] ]_vars

(***************************************************************************)
(* The dispatch of delivery orders while the admin deactivates couriers.   *)
(***************************************************************************)

\* The admin sets ativo = false on a courier's row, between two dispatches.
AdminDesativa(nome) ==
    /\ Ociosa
    /\ nome \notin inativos
    /\ inativos' = inativos \cup {nome}
    /\ UNCHANGED <<chamada, tentativasEnvio, desfecho, cacheCarregado>>
    /\ UNCHANGED <<connVars, lojaVars, pollVars, histVars, pixVars, cfgVars>>

Couriers == {Funcionarios[i].nome : i \in 1..Len(Funcionarios)}

\* Every read of the directory succeeds; the first obterEntregadores reads
\* it, ultimaAtualizacaoCache being null (index.js 95).
NextDiretorio ==
    \/ ~Microtarefa /\ ConexaoPasso(MaxSocksPoller, {"connectionLost"})
    \/ \E p \in Payloads :
          p.entrega /\ p.forma = "ok" /\ p.status = "pending"
          /\ ChamaProcessarNovoPedido(p)
    \/ \E renova \in BOOLEAN : (~cacheCarregado => renova) /\ Retoma(renova)
    \/ \E ok \in BOOLEAN : TransporteResponde(ok)
    \/ DiretorioResponde(FALSE)
    \/ DelayFim
    \/ \E nome \in Couriers : AdminDesativa(nome)

SpecDiretorio == InitPoller /\ [][NextDiretorio]_vars

\* The call in flight returns normally in this step.
Retornou(fn) ==
    /\ ~Ociosa
    /\ chamada'.espera = "fim"
    /\ chamada'.fn = fn
    /\ desfecho' = "normal"

\* C36: when the dispatch of a delivery order returns, the couriers it made
\* a send attempt to are exactly the rows of the directory that are active
\* and have a phone at the time of the dispatch (the directory does not
\* change while a dispatch is in flight).
C36_DestinatariosAtuais ==
    [][ Retornou("novo") =>
            {tentativasEnvio'[i].dest : i \in 1..Len(tentativasEnvio')}
                \cap Couriers
            = {f.nome : f \in Range(ComTelefone(Ativos))} ]_vars

\* The store-status intervals that are active: lines 299-302 clear the one
\* the variable holds and install the next in one stretch with no await, so
\* the one the variable holds is the only one.
lojaAtivos == IF intervaloVerificacaoLoja THEN 1 ELSE 0

\* C37: whatever the sequence and interleaving of 'open' events and of the
\* configurarPollingPedidos calls they start, at most one order-polling
\* interval and at most one store-status interval are active at any time.
C37_UmIntervalo ==
    /\ pollAtivos <= 1
    /\ lojaAtivos <= 1

(***************************************************************************)
(* The automatic replies (lib/respostasAutomaticas.js): the anti-spam      *)
(* window around processarMensagemRecebida.                                *)
(***************************************************************************)

INTERVALO_MINIMO_RESPOSTA_MS == 120000
RETENCAO_RESPOSTA_MS == 3600000
MINUTO_MS == 60000

\* What detectarIntencao returns, by what processarMensagemRecebida does
\* with it: 'pix'; 'horario' for the intents whose generator awaits
\* verificarLojaAbertaSupabase (saudacao, horario, pedido); 'entrega' for
\* those whose generator returns at once; "nenhuma" for null.
Intencoes == {"pix", "horario", "entrega", "nenhuma"}

\* A reply decided for every message with an intent.
SempreResponde(numeroRemetente) == TRUE

\* podeResponder (lines 341-350).
podeResponder(numeroRemetente) ==
    ~(/\ ultimasRespostas[numeroRemetente] # 0
      /\ agora - ultimasRespostas[numeroRemetente] < INTERVALO_MINIMO_RESPOSTA_MS)

\* registrarResposta (lines 355-365): the entry is set, and the entries of
\* more than one hour are deleted.
registrarResposta(mapa, numeroRemetente, t) ==
    [n \in Remetentes |->
        IF n = numeroRemetente THEN t
        ELSE IF mapa[n] # 0 /\ t - mapa[n] > RETENCAO_RESPOSTA_MS THEN 0
        ELSE mapa[n]]

\* The pix selector is left alone.
SemSelecao ==
    UNCHANGED <<usoPorIndice, ultimoEnvioPorNumero, agora, entregas,
                ultimaSelecao, semConflito>>

\* processarMensagemRecebida(mensagem, numeroRemetente) up to its return or
\* to the await of its generator (lines 700-741); intencao: what
\* detectarIntencao gives for the message; sorteado: the key Math.random()
\* picks for a pix reply.
processarMensagemRecebida(numeroRemetente, intencao, sorteado) ==
    LET chamada0 == [quem |-> numeroRemetente, intencao |-> intencao,
                     quando |-> agora, antes |-> ultimoRegistro[numeroRemetente]]
        registra ==
            /\ ultimasRespostas' =
                  registrarResposta(ultimasRespostas, numeroRemetente, agora)
            /\ ultimoRegistro' = [ultimoRegistro EXCEPT ![numeroRemetente] = agora]
        calada ==
            /\ ultimaMensagem' = chamada0 @@ [resposta |-> "null"]
            /\ UNCHANGED <<ultimasRespostas, ultimoRegistro, respostas>>
            /\ SemSelecao
    IN  /\ numeroRemetente \in Remetentes
        /\ intencao \in Intencoes
        /\ sorteado \in Indices
        /\ IF intencao = "nenhuma" THEN calada
           ELSE IF intencao # "pix" /\ ~podeResponder(numeroRemetente) THEN calada
           ELSE /\ registra
                /\ CASE intencao = "pix" ->
                          /\ SelecaoPix(numeroRemetente, sorteado)
                          /\ ultimaMensagem' = chamada0 @@ [resposta |-> "pix"]
                          /\ UNCHANGED respostas
                     [] intencao = "horario" ->
                          /\ respostas' = Append(respostas, numeroRemetente)
                          /\ ultimaMensagem' = chamada0 @@ [resposta |-> "pendente"]
                          /\ SemSelecao
                     [] OTHER ->
                          /\ ultimaMensagem' = chamada0 @@ [resposta |-> "texto"]
                          /\ UNCHANGED respostas
                          /\ SemSelecao
        /\ UNCHANGED <<connVars, lojaVars, pollVars, histVars, despVars, cfgVars>>

\* The generator of a reply resumes with the answer of
\* verificarLojaAbertaSupabase and returns its text.
RespostaRetoma(erro) ==
    /\ respostas # << >>
    /\ respostas' = Tail(respostas)
    /\ LojaAbertaLida(erro)
    /\ UNCHANGED <<ultimasRespostas, ultimoRegistro, ultimaMensagem>>
    /\ SemSelecao
    /\ UNCHANGED <<connVars, lojaVars, pollVars, histVars, despVars>>

\* Date.now() moves on, by a minute or by an hour and a minute.
PassosResposta == {MINUTO_MS, RETENCAO_RESPOSTA_MS + MINUTO_MS}

RelogioAvanca(d) ==
    /\ d \in PassosResposta
    /\ agora' = agora + d
    /\ UNCHANGED <<usoPorIndice, ultimoEnvioPorNumero, entregas, ultimaSelecao,
                   semConflito, respVars>>
    /\ UNCHANGED <<connVars, lojaVars, pollVars, histVars, despVars, cfgVars>>

\* The senders of the messages: a number and the empty id.
RemetentesMensagem == { <<"7">>, << >> }

\* At most MaxMinutos steps of a minute in a row, and one step of an hour.
MinutosCorridos(d) ==
    IF d = MINUTO_MS
    THEN ((agora - HORA_MS) % (RETENCAO_RESPOSTA_MS + MINUTO_MS))
             < MaxMinutos * MINUTO_MS
    ELSE agora - HORA_MS <= MaxMinutos * MINUTO_MS

NextRespostas ==
    \/ \E r \in RemetentesMensagem, intencao \in Intencoes, i \in Indices :
          /\ Len(respostas) < MaxRespostas
          /\ intencao = "pix" => Selecoes < MaxPixRespostas
          /\ intencao # "pix" => i = 0
          /\ processarMensagemRecebida(r, intencao, i)
    \/ \E erro \in BOOLEAN : RespostaRetoma(erro)
    \/ \E d \in PassosResposta : MinutosCorridos(d) /\ RelogioAvanca(d)

SpecRespostas == InitPoller /\ [][NextRespostas]_vars

\* A reply that is not the pix reply.
RespostaComum == {"texto", "pendente"}

\* C38: processarMensagemRecebida decides a reply that is not the pix reply
\* only if no reply was registered for the sender before or at least 2
\* minutes have passed since the last one; a message with the pix intent is
\* always answered; a message with no intent gets null, registers nothing
\* and leaves the anti-spam map as it is.
C38_AntiSpam ==
    [][ \A r \in Remetentes, intencao \in Intencoes, i \in Indices :
            processarMensagemRecebida(r, intencao, i) =>
                /\ ultimaMensagem'.resposta \in RespostaComum =>
                      \/ ultimoRegistro[r] = 0
                      \/ agora - ultimoRegistro[r] >= INTERVALO_MINIMO_RESPOSTA_MS
                /\ intencao = "pix" => ultimaMensagem'.resposta = "pix"
                /\ intencao = "nenhuma" =>
                      /\ ultimaMensagem'.resposta = "null"
                      /\ UNCHANGED <<ultimasRespostas, ultimoRegistro>> ]_vars

\* The last message got a reply that is not the pix reply, from a sender who
\* had got a reply before, and the map holds an entry of over an hour.
C38_Witness ==
    /\ ultimaMensagem.resposta \in RespostaComum
    /\ ultimaMensagem.antes # 0
    /\ \E r \in Remetentes :
          /\ ultimasRespostas[r] # 0
          /\ agora - ultimasRespostas[r] > RETENCAO_RESPOSTA_MS

(***************************************************************************)
(* The connection manager and the poller together.                         *)
(***************************************************************************)

\* C39: statusConexao is 'conectado' only while sock is a handle that has
\* opened and has not been ended; a step of iniciarConexaoWhatsApp that
\* ends the socket or puts a new one in sock leaves statusConexao other
\* than 'conectado'.
C39_ConectadoComHandle ==
    [][ /\ statusConexao' = "conectado" =>
              sock' # 0 /\ socks'[sock'].estado = "aberto"
        /\ \A j \in 1..Len(timers) :
              TimerIniciarConexao(j) => statusConexao' # "conectado"
        /\ \A k \in 1..Len(inicios) :
              IniciarCriarSocket(k) => statusConexao' # "conectado" ]_vars

\* The order enters pedidosProcessados in this step.
Marcado(id) ==
    id \notin Range(pedidosProcessados) /\ id \in Range(pedidosProcessados')

\* C40: an order id enters pedidosProcessados, the cursor moving to it, only
\* if sock.sendMessage was called at least once for that order; a run of
\* the poller while statusConexao is not 'conectado' marks no order.
C40_SemConsumoSilencioso ==
    [][ \A id \in Ids :
            Marcado(id) => transportes[id] ]_vars

====
